---- MODULE Spec2Model ----
(***************************************************************************)
(* A model of the web style extractor (src/style_extractor.py): the colour *)
(* conversions of ColorConverter, the colour and font extractors of        *)
(* WebStyleExtractor and the format dispatch of generate_template.         *)
(*                                                                         *)
(* A Python str is modelled as a sequence of one-character strings, so     *)
(* that slicing, stripping, scanning and formatting are computed the way   *)
(* the code computes them.  A call that raises is modelled by the record   *)
(* Raise(e); a call that returns v by Return(v).                           *)
(***************************************************************************)
EXTENDS Integers, Sequences, FiniteSets, TLC

VARIABLES
    pc,             \* "call" before the operation under study, its name after
    hex_color,      \* argument of hex_to_oklch_string / _lighten_color / _darken_color
    amount,         \* the ratio argument of _lighten_color / _darken_color, in tenths
    css_text,       \* the raw style text handed to the extractors
    soup,           \* what the page's first <img> leads to (extract_colors)
    sheet,          \* what cssutils.parseString(css_text) yields: rules, or an exception
    data,           \* the WebStyleData handed to generate_template
    output_format,  \* the format identifier handed to generate_template
    templates,      \* which template files exist on disk
    result,         \* what the operation returned, or the exception it raised
    page,           \* the document the server holds at self.url
    trace,          \* the calls made so far, in order
    link,           \* get_all_css: index of the <link> the last loop is at
    styles,         \* get_computed_styles: the snapshot being filled
    found_colors,   \* extract_styles: the local colors
    found_fonts,    \* extract_styles: the local fonts
    written,        \* main: the names of the files written so far, in order
    output_file     \* main: whether --output-file is given

\* the variables of the extraction pipeline
pipeline ==
    <<page, trace, link, styles, found_colors, found_fonts, written, output_file>>

vars == <<pc, hex_color, amount, css_text, soup, sheet, data,
          output_format, templates, result, pipeline>>

Return(v) == [raised |-> FALSE, value |-> v]
Raise(e) == [raised |-> TRUE, value |-> e]
NoResult == [raised |-> FALSE, value |-> <<>>]

----------------------------------------------------------------------------
(* Characters and Python's str and int primitives.                         *)

Digits == <<"0","1","2","3","4","5","6","7","8","9">>
HexDigits == <<"0","1","2","3","4","5","6","7","8","9","a","b","c","d","e","f">>
UpperLetters == <<"A","B","C","D","E","F","G","H","I","J","K","L","M",
                  "N","O","P","Q","R","S","T","U","V","W","X","Y","Z">>
LowerLetters == <<"a","b","c","d","e","f","g","h","i","j","k","l","m",
                  "n","o","p","q","r","s","t","u","v","w","x","y","z">>

Range(s) == {s[i] : i \in 1..Len(s)}

\* the characters int(s, 16) takes for digits
HexChars == Range(HexDigits) \cup {"A","B","C","D","E","F"}
SpaceChars == {" ", "\n", "\t", "\r"}
QuoteChars == {"\"", "'"}
HashChars == {"#"}
\* \w of the re module
WordChars == Range(Digits) \cup Range(UpperLetters) \cup Range(LowerLetters) \cup {"_"}

\* str.lower(), one character
LowerOf == [c \in Range(UpperLetters) |->
               LowerLetters[CHOOSE i \in 1..26 : UpperLetters[i] = c]]

LowerChar(c) == IF c \in DOMAIN LowerOf THEN LowerOf[c] ELSE c

\* str.lower()
LowerStr(s) == [i \in 1..Len(s) |-> LowerChar(s[i])]

\* the value of one digit of int(s, 16)
HexValOf == [c \in HexChars |-> (CHOOSE i \in 1..16 : HexDigits[i] = LowerChar(c)) - 1]

HexVal(c) == HexValOf[c]

\* s[a:b] of Python with 0 <= a <= b: out of range indices are clipped
Slice(s, a, b) ==
    LET hi == IF b < Len(s) THEN b ELSE Len(s)
    IN  IF a >= hi THEN <<>> ELSE SubSeq(s, a + 1, hi)

\* str.lstrip(chars), str.rstrip(chars) and str.strip(chars)
RECURSIVE LStripChars(_, _)
LStripChars(s, chars) ==
    IF s # <<>> /\ Head(s) \in chars THEN LStripChars(Tail(s), chars) ELSE s

RECURSIVE RStripChars(_, _)
RStripChars(s, chars) ==
    IF s # <<>> /\ s[Len(s)] \in chars
    THEN RStripChars(SubSeq(s, 1, Len(s) - 1), chars)
    ELSE s

StripChars(s, chars) == RStripChars(LStripChars(s, chars), chars)

\* int(x) of a rational num/den with den > 0: truncation toward zero
TruncDiv(num, den) == IF num >= 0 THEN num \div den ELSE -((-num) \div den)

\* round(num/den) to the nearest integer, ties to even, den > 0
RoundDiv(num, den) ==
    LET fl == num \div den
        twice == 2 * (num - fl * den)
    IN  IF twice < den THEN fl
        ELSE IF twice > den THEN fl + 1
        ELSE IF fl % 2 = 0 THEN fl ELSE fl + 1

RECURSIVE DigitsOf(_, _)
\* the digits of n >= 0 in the given base, most significant first
DigitsOf(n, base) ==
    IF n < base THEN <<HexDigits[n + 1]>>
    ELSE Append(DigitsOf(n \div base, base), HexDigits[(n % base) + 1])

RECURSIVE ZeroPad(_, _)
ZeroPad(s, width) == IF Len(s) >= width THEN s ELSE ZeroPad(<<"0">> \o s, width)

\* f"{n:02x}": lowercase hex, zero-padded to width 2, the sign counted in the width
FormatHex2(n) ==
    IF n >= 0 THEN ZeroPad(DigitsOf(n, 16), 2)
    ELSE <<"-">> \o ZeroPad(DigitsOf(-n, 16), 1)

\* f"{x:.<d>f}" of the number scaled/10^d, negative telling the sign of x
FormatFixed(scaled, negative, d) ==
    LET mag == IF scaled < 0 THEN -scaled ELSE scaled
        pow == IF d = 1 THEN 10 ELSE 1000
        whole == DigitsOf(mag \div pow, 10)
        frac == ZeroPad(DigitsOf(mag % pow, 10), d)
    IN  (IF negative THEN <<"-">> ELSE <<>>) \o whole \o <<".">> \o frac

\* int(s, 16) on a slice of at most two characters: surrounding whitespace is
\* ignored, one sign is allowed, and what remains must be hex digits
IntHex(s) ==
    LET t == StripChars(s, SpaceChars)
        signed == t # <<>> /\ Head(t) \in {"+", "-"}
        body == IF signed THEN Tail(t) ELSE t
        ok == body # <<>> /\ \A i \in 1..Len(body) : body[i] \in HexChars
        mag == IF Len(body) = 1 THEN HexVal(body[1])
               ELSE 16 * HexVal(body[1]) + HexVal(body[2])
    IN  IF ~ok THEN Raise("ValueError")
        ELSE Return(IF signed /\ Head(t) = "-" THEN -mag ELSE mag)

\* tuple(int(h[i:i+2], 16) for i in (0, 2, 4))
Channels(h) ==
    LET r == IntHex(Slice(h, 0, 2))
        g == IntHex(Slice(h, 2, 4))
        b == IntHex(Slice(h, 4, 6))
    IN  IF r.raised \/ g.raised \/ b.raised THEN Raise("ValueError")
        ELSE Return(<<r.value, g.value, b.value>>)

----------------------------------------------------------------------------
(* ColorConverter                                                          *)

\* ''.join([c*2 for c in hex_color])
DoubleEach(s) == [i \in 1..(2 * Len(s)) |-> s[(i + 1) \div 2]]

hex_to_rgb(h) ==
    LET stripped == LStripChars(h, HashChars)
        expanded == IF Len(stripped) = 3 THEN DoubleEach(stripped) ELSE stripped
    IN  Channels(expanded)

Max3(r, g, b) == IF r >= g /\ r >= b THEN r ELSE IF g >= b THEN g ELSE b
Min3(r, g, b) == IF r <= g /\ r <= b THEN r ELSE IF g <= b THEN g ELSE b

\* rgb_to_oklch with colorsys.rgb_to_hls inlined, in exact arithmetic on the
\* channel values (units of 1/255).  The three components are returned already
\* scaled for the formatting of hex_to_oklch_string: lightness in tenths of a
\* percent, chroma in thousandths, hue in tenths of a degree, each with the
\* sign the float has.  A zero divisor is colorsys's ZeroDivisionError.
rgb_to_oklch(r, g, b) ==
    LET maxc == Max3(r, g, b)
        minc == Min3(r, g, b)
        sumc == maxc + minc
        rangec == maxc - minc
        light == [scaled |-> RoundDiv(1000 * sumc, 510), neg |-> sumc < 0]
        grey == [scaled |-> 0, neg |-> FALSE]
        \* l <= 0.5  <=>  sumc/510 <= 1/2
        den == IF 2 * sumc <= 510 THEN sumc ELSE 510 - sumc
        chroma == IF den > 0
                  THEN [scaled |-> RoundDiv(370 * rangec, den), neg |-> FALSE]
                  ELSE [scaled |-> -RoundDiv(370 * rangec, -den), neg |-> TRUE]
        \* 6h before the modulo, times rangec
        h6 == IF r = maxc THEN g - b
              ELSE IF g = maxc THEN 2 * rangec + (b - r)
              ELSE 4 * rangec + (r - g)
        \* ((h/6) % 1.0) * 360 in tenths of a degree: 600*h6/rangec mod 3600
        hue == [scaled |-> RoundDiv((600 * h6) % (3600 * rangec), rangec), neg |-> FALSE]
    IN  IF minc = maxc THEN Return(<<light, grey, grey>>)
        ELSE IF den = 0 THEN Raise("ZeroDivisionError")
        ELSE Return(<<light, chroma, hue>>)

OklchOpen == <<"o","k","l","c","h","(">>
OklchFallback == OklchOpen \o <<"5","0","%"," ","0",".","1"," ","0","d","e","g",")">>
FallbackNote == <<" "," ","/","*"," ","f","a","l","l","b","a","c","k"," ","f","o","r"," ">>
FallbackEnd == <<" ","*","/">>

\* a fallback that annotates the string hex_to_rgb worked on, not the argument
OklchFallbackForStripped(h) ==
    OklchFallback \o FallbackNote \o LStripChars(h, HashChars) \o FallbackEnd

\* the except branch of hex_to_oklch_string
OklchFallbackFor(h) == OklchFallback \o FallbackNote \o h \o FallbackEnd

hex_to_oklch_string(h) ==
    LET rgb == hex_to_rgb(h)
        lch == rgb_to_oklch(rgb.value[1], rgb.value[2], rgb.value[3])
        l == lch.value[1]
        c == lch.value[2]
        hu == lch.value[3]
    IN  IF rgb.raised THEN Return(OklchFallbackFor(h))
        ELSE IF lch.raised THEN Return(OklchFallbackFor(h))
        ELSE Return(OklchOpen \o FormatFixed(l.scaled, l.neg, 1) \o <<"%", " ">>
                    \o FormatFixed(c.scaled, c.neg, 3) \o <<" ">>
                    \o FormatFixed(hu.scaled, hu.neg, 1) \o <<"d","e","g",")">>)

----------------------------------------------------------------------------
(* The shade helpers of WebStyleExtractor.  The ratio is a float in the    *)
(* code; the model takes it in tenths (amount = 3 is 0.3), the grid the    *)
(* callers use.                                                            *)

Amounts == 0..10

Hash == <<"#">>

\* f"#{c[0]:02x}{c[1]:02x}{c[2]:02x}"
HexOfChannels(c) == Hash \o FormatHex2(c[1]) \o FormatHex2(c[2]) \o FormatHex2(c[3])

Min2(a, b) == IF a <= b THEN a ELSE b
Max2(a, b) == IF a >= b THEN a ELSE b

\* a lighten that adds the fraction of 255 and does not clamp
LightenChannelUnclamped(c, k) == TruncDiv(10 * c + 255 * k, 10)

\* a lighten that rounds to the nearest integer instead of truncating
LightenChannelRounded(c, k) ==
    Min2(255, (2 * (10 * c + (255 - c) * k) + 10) \div 20)

\* min(255, int(c + (255 - c) * amount))
LightenChannel(c, k) == Min2(255, TruncDiv(10 * c + (255 - c) * k, 10))

\* The products c * (1 - amount) that IEEE-754 doubles leave just below the
\* integer they equal in exact arithmetic, so that int() yields one less
\* (1 - 0.3, 1 - 0.8 and 1 - 0.9 are not the doubles nearest 0.7, 0.2, 0.1).
DarkenFloatShort(c, k) ==
    \/ k = 3 /\ c \in {90, 170, 180}
    \/ k = 8 /\ c > 0 /\ c % 5 = 0
    \/ k = 9 /\ c > 0 /\ c % 10 = 0

\* max(0, int(c * (1 - amount)))
DarkenChannel(c, k) ==
    Max2(0, TruncDiv(c * (10 - k), 10) - (IF DarkenFloatShort(c, k) THEN 1 ELSE 0))

\* the bare except: of both helpers returns the local hex_color, which the
\* first statement of the try block has already rebound to the stripped string
ShadeFallback(h) == LStripChars(h, HashChars)

_lighten_color(h, k) ==
    LET rgb == Channels(LStripChars(h, HashChars))
    IN  IF rgb.raised THEN Return(ShadeFallback(h))
        ELSE Return(HexOfChannels([i \in 1..3 |-> LightenChannel(rgb.value[i], k)]))

_darken_color(h, k) ==
    LET rgb == Channels(LStripChars(h, HashChars))
    IN  IF rgb.raised THEN Return(ShadeFallback(h))
        ELSE Return(HexOfChannels([i \in 1..3 |-> DarkenChannel(rgb.value[i], k)]))

----------------------------------------------------------------------------
(* The conversions applied to bounded inputs.                              *)

MaxHexLen == 6

HexAlphabet == {"0", "f", "g", "-"}

StringsUpTo(alphabet, n) == UNION {[1..k -> alphabet] : k \in 0..n}

HexInputs == {prefix \o body : prefix \in {<<>>, Hash},
                               body \in StringsUpTo(HexAlphabet, MaxHexLen)}

NoData == [url |-> <<>>, colors |-> <<>>, fonts |-> <<>>, body_bg |-> <<>>,
           heading_color |-> <<>>, link_color |-> <<>>, body_font |-> <<>>,
           css_text |-> <<>>]
NoSoup == [img |-> FALSE, src |-> FALSE, fetch |-> "ok", decodable |-> FALSE,
           histogram |-> <<>>]

TemplateDir(exists, files, readable) ==
    [exists |-> exists, files |-> files, readable |-> readable]

NoTemplates == TemplateDir(FALSE, {}, FALSE)

ExtractIdle == css_text = <<>> /\ soup = NoSoup /\ sheet = NoResult
RenderIdle == data = NoData /\ output_format = "" /\ templates = NoTemplates
ConvIdle == hex_color = <<>> /\ amount = 0
PipelineIdle ==
    /\ page = <<>> /\ trace = <<>> /\ link = 0 /\ styles = <<>>
    /\ found_colors = <<>> /\ found_fonts = <<>> /\ written = <<>>
    /\ output_file = FALSE

InitConv ==
    /\ pc = "call"
    /\ hex_color \in HexInputs
    /\ amount = 0
    /\ result = NoResult
    /\ ExtractIdle
    /\ RenderIdle
    /\ PipelineIdle

CallHexToOklch ==
    /\ pc = "call"
    /\ pc' = "hex_to_oklch_string"
    /\ result' = hex_to_oklch_string(hex_color)
    /\ UNCHANGED <<hex_color, amount, css_text, soup, sheet, data,
                   output_format, templates, pipeline>>

CallLighten ==
    /\ pc = "call"
    /\ pc' = "_lighten_color"
    /\ \E k \in Amounts :
        /\ amount' = k
        /\ result' = _lighten_color(hex_color, k)
    /\ UNCHANGED <<hex_color, css_text, soup, sheet, data,
                   output_format, templates, pipeline>>

CallDarken ==
    /\ pc = "call"
    /\ pc' = "_darken_color"
    /\ \E k \in Amounts :
        /\ amount' = k
        /\ result' = _darken_color(hex_color, k)
    /\ UNCHANGED <<hex_color, css_text, soup, sheet, data,
                   output_format, templates, pipeline>>

NextConv == CallHexToOklch \/ CallLighten \/ CallDarken

SpecConv == InitConv /\ [][NextConv]_vars

----------------------------------------------------------------------------
(* Properties of the conversions.                                          *)

StartsWith(s, prefix) ==
    Len(s) >= Len(prefix) /\ SubSeq(s, 1, Len(prefix)) = prefix

Black == <<"#","0","0","0","0","0","0">>
White == <<"#","f","f","f","f","f","f">>
Grey80 == <<"#","8","0","8","0","8","0">>
Grey7f == <<"#","7","f","7","f","7","f">>

\* the characters between "oklch(" and the closing parenthesis
OklchTermChars == Range(Digits) \cup {".", "%", " ", "-", "d", "e", "g"}

\* s starts with a term oklch( ... )
StartsWithOklchTerm(s) ==
    /\ StartsWith(s, OklchOpen)
    /\ \E j \in (Len(OklchOpen) + 1)..Len(s) :
        /\ s[j] = ")"
        /\ \A i \in (Len(OklchOpen) + 1)..(j - 1) : s[i] \in OklchTermChars

\* C3: hex_to_oklch_string never raises, its result always starts with an
\* oklch(...) term, and when the hex decode fails the result is the fixed
\* fallback oklch(50% 0.1 0deg) followed by the comment naming the argument
\* exactly as it was passed in.
C3_OklchTotal ==
    pc = "hex_to_oklch_string" =>
        /\ ~result.raised
        /\ StartsWithOklchTerm(result.value)
        /\ hex_to_rgb(hex_color).raised =>
            result.value = OklchFallback \o FallbackNote \o hex_color \o FallbackEnd

\* C3 witness: a 4-digit form with its leading '#' fails to decode and the
\* fallback has been returned.
C3_Witness ==
    /\ pc = "hex_to_oklch_string"
    /\ hex_color = <<"#","f","f","f","f">>
    /\ StartsWith(result.value, OklchFallback)

\* C4 as stated: lighten("#000000", 0.5) and darken("#ffffff", 0.5) both
\* return "#808080", and lightening black by r equals darkening white by 1-r.
C4_Original ==
    /\ (pc = "_lighten_color" /\ hex_color = Black /\ amount = 5)
            => result.value = Grey80
    /\ (pc = "_darken_color" /\ hex_color = White /\ amount = 5)
            => result.value = Grey80
    /\ (pc = "_lighten_color" /\ hex_color = Black)
            => result = _darken_color(White, 10 - amount)

\* C4 amended: lighten("#000000", 0.5) and darken("#ffffff", 0.5) both
\* return "#7f7f7f" (each channel is truncated, 127.5 becomes 127), so at
\* ratio 0.5 lightening black and darkening white give the same colour.
C4_Amended ==
    /\ (pc = "_lighten_color" /\ hex_color = Black /\ amount = 5)
            => result = Return(Grey7f) /\ result = _darken_color(White, 5)
    /\ (pc = "_darken_color" /\ hex_color = White /\ amount = 5)
            => result = Return(Grey7f)

\* C4 witness: black has been lightened by 0.5.
C4_Witness ==
    pc = "_lighten_color" /\ hex_color = Black /\ amount = 5 /\ ~result.raised

\* C5: when the argument cannot be decoded, _lighten_color and _darken_color
\* return exactly the string they were given and do not raise.
C5_Claim ==
    (/\ pc \in {"_lighten_color", "_darken_color"}
     /\ Channels(LStripChars(hex_color, HashChars)).raised)
        => result = Return(hex_color)

----------------------------------------------------------------------------
(* extract_colors                                                          *)

MaxColors == 10
TopImageColors == 3

\* the least element of a non-empty set of integers
MinOf(S) == CHOOSE j \in S : \A o \in S : j <= o

\* the index after the longest run of characters of chars that starts at i
RunEnd(s, i, chars) ==
    LET stops == {j \in i..Len(s) : s[j] \notin chars}
    IN  IF stops # {} THEN MinOf(stops) ELSE Max2(i, Len(s) + 1)

DigitChars == Range(Digits)
\* [\d.]
NumberChars == DigitChars \cup {"."}

\* \b after a word character at index i - 1: the end of the text or a
\* character that is not a word character at index i
BoundaryAt(s, i) == i > Len(s) \/ s[i] \notin WordChars

\* The lengths (?:[0-9a-fA-F]{3,4}){1,2} tries at one '#', in the order of the
\* greedy backtracking search: 4+4, 4+3, 4, 3+4, 3+3, 3.
HexPatternLengths == <<8, 7, 4, 7, 6, 3>>

\* the number of hex digits hex_pattern matches after the '#' at index i, 0 for
\* no match there
HexMatchLen(s, i) ==
    LET avail == RunEnd(s, i + 1, HexChars) - (i + 1)
        fits(t) == t <= avail /\ BoundaryAt(s, i + 1 + t)
        tries == {j \in 1..Len(HexPatternLengths) : fits(HexPatternLengths[j])}
    IN  IF tries = {} THEN 0
        ELSE HexPatternLengths[CHOOSE j \in tries : \A o \in tries : j <= o]

RECURSIVE FindHexColors(_, _)
\* re.findall(hex_pattern, css_text), scanning from index i
FindHexColors(s, i) ==
    LET starts == {j \in i..Len(s) : s[j] = "#" /\ HexMatchLen(s, j) > 0}
    IN  IF starts = {} THEN <<>>
        ELSE LET j == MinOf(starts)
             IN  <<SubSeq(s, j, j + HexMatchLen(s, j))>>
                 \o FindHexColors(s, j + HexMatchLen(s, j) + 1)

\* \s*\d+ from index i: the index after it, 0 when it does not match
NumberEnd(s, i) ==
    LET d == RunEnd(s, i, SpaceChars)
        e == RunEnd(s, d, DigitChars)
    IN  IF e > d THEN e ELSE 0

\* \s*, from index i: the index after the comma, 0 when it does not match
CommaEnd(s, i) ==
    LET c == RunEnd(s, i, SpaceChars)
    IN  IF c <= Len(s) /\ s[c] = "," THEN c + 1 ELSE 0

\* (?:,\s*[\d.]+)?\) from index i: the index after the parenthesis, 0 for none
RgbTailEnd(s, i) ==
    IF i <= Len(s) /\ s[i] = ")" THEN i + 1
    ELSE IF i <= Len(s) /\ s[i] = ","
         THEN LET a == RunEnd(s, i + 1, SpaceChars)
                  e == RunEnd(s, a, NumberChars)
              IN  IF e > a /\ e <= Len(s) /\ s[e] = ")" THEN e + 1 ELSE 0
         ELSE 0

\* rgb_pattern at index i: the index after the match, 0 when it does not match
RgbMatchEnd(s, i) ==
    LET at(j, c) == j <= Len(s) /\ s[j] = c
        open == IF at(i, "r") /\ at(i + 1, "g") /\ at(i + 2, "b")
                THEN IF at(i + 3, "(") THEN i + 4
                     ELSE IF at(i + 3, "a") /\ at(i + 4, "(") THEN i + 5
                     ELSE 0
                ELSE 0
        n1 == IF open = 0 THEN 0 ELSE NumberEnd(s, open)
        c1 == IF n1 = 0 THEN 0 ELSE CommaEnd(s, n1)
        n2 == IF c1 = 0 THEN 0 ELSE NumberEnd(s, c1)
        c2 == IF n2 = 0 THEN 0 ELSE CommaEnd(s, n2)
        n3 == IF c2 = 0 THEN 0 ELSE NumberEnd(s, c2)
    IN  IF n3 = 0 THEN 0 ELSE RgbTailEnd(s, n3)

RECURSIVE FindRgbColors(_, _)
\* re.findall(rgb_pattern, css_text), scanning from index i
FindRgbColors(s, i) ==
    LET starts == {j \in i..Len(s) : s[j] = "r" /\ RgbMatchEnd(s, j) > 0}
    IN  IF starts = {} THEN <<>>
        ELSE LET j == MinOf(starts)
             IN  <<SubSeq(s, j, RgbMatchEnd(s, j) - 1)>> \o FindRgbColors(s, RgbMatchEnd(s, j))

RECURSIVE IntOfDigits(_)
\* int(s) of a run of decimal digits
IntOfDigits(s) ==
    IF s = <<>> THEN 0
    ELSE 10 * IntOfDigits(SubSeq(s, 1, Len(s) - 1)) + HexVal(s[Len(s)])

RECURSIVE FindNumbers(_, _)
\* list(map(int, re.findall(r'\d+', color))), scanning from index i
FindNumbers(s, i) ==
    LET starts == {j \in i..Len(s) : s[j] \in DigitChars}
    IN  IF starts = {} THEN <<>>
        ELSE LET j == MinOf(starts)
             IN  <<IntOfDigits(SubSeq(s, j, RunEnd(s, j, DigitChars) - 1))>>
                 \o FindNumbers(s, RunEnd(s, j, DigitChars))

\* a normalisation that doubles a 3-digit literal and keeps the letter case
NormalizeHexKeepCase(color) ==
    IF Len(color) = 4
    THEN <<"#", color[2], color[2], color[3], color[3], color[4], color[4]>>
    ELSE color

\* the body of the loop over hex_colors: a 3-digit literal is doubled, every
\* literal is lower-cased
NormalizeHex(color) ==
    LowerStr(IF Len(color) = 4
             THEN <<"#", color[2], color[2], color[3], color[3], color[4], color[4]>>
             ELSE color)

\* the body of the loop over rgb_colors
RgbToHex(color) ==
    LET numbers == FindNumbers(color, 1)
    IN  IF Len(numbers) >= 3 THEN <<HexOfChannels(numbers)>> ELSE <<>>

RECURSIVE FlatMap(_, _)
FlatMap(Op(_), s) == IF s = <<>> THEN <<>> ELSE Op(Head(s)) \o FlatMap(Op, Tail(s))

HexCandidates(text) ==
    LET found == FindHexColors(text, 1)
    IN  [i \in 1..Len(found) |-> NormalizeHex(found[i])]

RgbCandidates(text) == FlatMap(RgbToHex, FindRgbColors(text, 1))

RECURSIVE InsertByCount(_, _)
\* insert e into a list sorted by count, descending, behind its equals
InsertByCount(sorted, e) ==
    IF sorted = <<>> THEN <<e>>
    ELSE IF Head(sorted).count >= e.count
         THEN <<Head(sorted)>> \o InsertByCount(Tail(sorted), e)
         ELSE <<e>> \o sorted

RECURSIVE SortByCount(_)
\* colors.sort(key=lambda x: x[0], reverse=True): stable
SortByCount(hist) ==
    IF hist = <<>> THEN <<>>
    ELSE InsertByCount(SortByCount(SubSeq(hist, 1, Len(hist) - 1)), hist[Len(hist)])

Take(s, n) == SubSeq(s, 1, Min2(n, Len(s)))

\* the colours the try block appends when no step of it raises
TopColors(hist) ==
    LET top == Take(SortByCount(hist), TopImageColors)
    IN  [i \in 1..Len(top) |-> HexOfChannels(top[i].color)]

\* a try block that decodes the response body whatever its HTTP status
ImageCandidatesAnyStatus(sp) ==
    IF sp.img /\ sp.src /\ sp.fetch # "request_error" /\ sp.decodable
    THEN TopColors(sp.histogram)
    ELSE <<>>

\* The try block of extract_colors.  find('img') may find nothing, the tag may
\* have no src, session.get may raise, raise_for_status may raise, Image.open
\* may raise; every exception is swallowed by the except clause.
ImageCandidates(sp) ==
    IF sp.img /\ sp.src /\ sp.fetch = "ok" /\ sp.decodable
    THEN TopColors(sp.histogram)
    ELSE <<>>

RECURSIVE UniqueFrom(_, _)
\* the loop that keeps the first occurrence of each element
UniqueFrom(s, seen) ==
    IF s = <<>> THEN <<>>
    ELSE IF Head(s) \in seen THEN UniqueFrom(Tail(s), seen)
         ELSE <<Head(s)>> \o UniqueFrom(Tail(s), seen \cup {Head(s)})

\* a merge that puts the rgb literals before the hex literals
NormalizedColorsRgbFirst(text, sp) ==
    RgbCandidates(text) \o HexCandidates(text) \o ImageCandidates(sp)

\* normalized_colors as the three stages leave it
NormalizedColors(text, sp) ==
    HexCandidates(text) \o RgbCandidates(text) \o ImageCandidates(sp)

\* an extraction that cuts the candidates to ten before it drops repetitions
extract_colors_cut_first(text, sp) ==
    Return(UniqueFrom(Take(NormalizedColors(text, sp), MaxColors), {}))

extract_colors(text, sp) ==
    Return(Take(UniqueFrom(NormalizedColors(text, sp), {}), MaxColors))

----------------------------------------------------------------------------
(* extract_colors applied to bounded style texts and images.  A style text *)
(* is up to MaxRules rules of the library, joined by single spaces.        *)

MaxRules == 2

\* a{color:#FFF}
RuleShortUpper ==
    <<"a","{","c","o","l","o","r",":","#","F","F","F","}">>

\* b{color:#ffffff}
RuleLongLower ==
    <<"b","{","c","o","l","o","r",":","#","f","f","f","f","f","f","}">>

\* i{color:#0f08}
RuleShortAlpha ==
    <<"i","{","c","o","l","o","r",":","#","0","f","0","8","}">>

\* p{color:#11223344;outline-color:#12345}
RuleLongAlpha ==
    <<"p","{","c","o","l","o","r",":","#","1","1","2","2","3","3","4","4",";",
      "o","u","t","l","i","n","e","-","c","o","l","o","r",":","#","1","2","3",
      "4","5","}">>

\* h1{color:rgb(255, 0, 0);background:rgba(0,128,255,0.5)}
RuleRgb ==
    <<"h","1","{","c","o","l","o","r",":","r","g","b","(","2","5","5",","," ",
      "0",","," ","0",")",";","b","a","c","k","g","r","o","u","n","d",":","r",
      "g","b","a","(","0",",","1","2","8",",","2","5","5",",","0",".","5",")",
      "}">>

\* u{color:rgb(300,0,0)}
RuleRgbLarge ==
    <<"u","{","c","o","l","o","r",":","r","g","b","(","3","0","0",",","0",",",
      "0",")","}">>

\* s{color:rgb(1,2,3);border-color:#ABCDEF}
RuleRgbThenHex ==
    <<"s","{","c","o","l","o","r",":","r","g","b","(","1",",","2",",","3",")",
      ";","b","o","r","d","e","r","-","c","o","l","o","r",":","#","A","B","C",
      "D","E","F","}">>

\* x{background:linear-gradient(#000001,#000002,#000003,#000004,#000005,#000006)}
RulePaletteA ==
    <<"x","{","b","a","c","k","g","r","o","u","n","d",":","l","i","n","e","a",
      "r","-","g","r","a","d","i","e","n","t","(","#","0","0","0","0","0","1",
      ",","#","0","0","0","0","0","2",",","#","0","0","0","0","0","3",",","#",
      "0","0","0","0","0","4",",","#","0","0","0","0","0","5",",","#","0","0",
      "0","0","0","6",")","}">>

\* y{background:linear-gradient(#000007,rgb(0,0,8),#000009,#00000a,rgb(0, 0, 11),#00000c)}
RulePaletteB ==
    <<"y","{","b","a","c","k","g","r","o","u","n","d",":","l","i","n","e","a",
      "r","-","g","r","a","d","i","e","n","t","(","#","0","0","0","0","0","7",
      ",","r","g","b","(","0",",","0",",","8",")",",","#","0","0","0","0","0",
      "9",",","#","0","0","0","0","0","a",",","r","g","b","(","0",","," ","0",
      ","," ","1","1",")",",","#","0","0","0","0","0","c",")","}">>

ColorRules == {RuleShortUpper,
               RuleLongLower,
               RuleShortAlpha,
               RuleLongAlpha,
               RuleRgb,
               RuleRgbLarge,
               RuleRgbThenHex,
               RulePaletteA,
               RulePaletteB}

RECURSIVE JoinRules(_)
JoinRules(rules) ==
    IF rules = <<>> THEN <<>>
    ELSE IF Len(rules) = 1 THEN rules[1]
    ELSE rules[1] \o <<" ">> \o JoinRules(Tail(rules))

TextsOf(library) == {JoinRules(rules) : rules \in StringsUpTo(library, MaxRules)}

Pixel(n, r, g, b) == [count |-> n, color |-> <<r, g, b>>]

\* what img.getcolors returns for the 100 x 100 sample
Histograms ==
    { <<Pixel(10000, 255, 255, 255)>>,
      <<Pixel(1000, 0, 0, 0), Pixel(4000, 255, 0, 0), Pixel(4000, 0, 0, 1),
        Pixel(1000, 18, 52, 86)>> }

Image(img, src, fetch, decodable, hist) ==
    [img |-> img, src |-> src, fetch |-> fetch, decodable |-> decodable,
     histogram |-> hist]

\* the page: without an image, with an image that has no src, with one whose
\* request succeeds or fails and whose body decodes or does not
Soups ==
    {NoSoup, Image(TRUE, FALSE, "ok", TRUE, <<>>), Image(TRUE, TRUE, "ok", FALSE, <<>>)}
    \cup {Image(TRUE, TRUE, "ok", TRUE, h) : h \in Histograms}
    \cup {Image(TRUE, TRUE, f, d, <<Pixel(10000, 255, 255, 255)>>) :
            f \in {"request_error", "http_error"}, d \in BOOLEAN}

ImageFailed(sp) == ~(sp.img /\ sp.src /\ sp.fetch = "ok" /\ sp.decodable)

InitColors ==
    /\ pc = "call"
    /\ css_text \in TextsOf(ColorRules)
    /\ soup \in Soups
    /\ sheet = NoResult
    /\ result = NoResult
    /\ ConvIdle
    /\ RenderIdle
    /\ PipelineIdle

CallExtractColors ==
    /\ pc = "call"
    /\ pc' = "extract_colors"
    /\ result' = extract_colors(css_text, soup)
    /\ UNCHANGED <<hex_color, amount, css_text, soup, sheet, data,
                   output_format, templates, pipeline>>

NextColors == CallExtractColors

SpecColors == InitColors /\ [][NextColors]_vars

----------------------------------------------------------------------------
(* Properties of extract_colors.                                           *)

\* '#' followed by exactly six lowercase hexadecimal digits
IsHex6Lower(c) ==
    /\ Len(c) = 7
    /\ c[1] = "#"
    /\ \A i \in 2..7 : c[i] \in Range(HexDigits)

PairwiseDistinct(s) == \A i, j \in 1..Len(s) : i # j => s[i] # s[j]

\* C1: extract_colors returns at most 10 pairwise distinct strings, each of
\* them '#' followed by exactly six lowercase hexadecimal digits.
C1_Claim ==
    pc = "extract_colors" =>
        /\ ~result.raised
        /\ Len(result.value) <= 10
        /\ PairwiseDistinct(result.value)
        /\ \A i \in 1..Len(result.value) : IsHex6Lower(result.value[i])

\* a{color:#FFF} b{color:#ffffff}
C6Input ==
    <<"a","{","c","o","l","o","r",":","#","F","F","F","}"," ","b","{","c","o",
      "l","o","r",":","#","f","f","f","f","f","f","}">>

\* a colour with its 3-digit shorthand expanded and its letters lower-cased
Canonical(c) ==
    LowerStr(IF Len(c) = 4 THEN <<"#", c[2], c[2], c[3], c[3], c[4], c[4]>> ELSE c)

\* C6: hex literals that differ only in letter case or in 3-digit shorthand
\* against 6-digit form yield one entry: no two entries of the result are
\* the same colour up to case and shorthand, and for the style text
\* "a{color:#FFF} b{color:#ffffff}" (the image adding nothing) the result is
\* exactly ["#ffffff"].
C6_CaseShorthandDedup ==
    pc = "extract_colors" =>
        /\ \A i, j \in 1..Len(result.value) :
              i # j => Canonical(result.value[i]) # Canonical(result.value[j])
        /\ (css_text = C6Input /\ ImageFailed(soup)) => result = Return(<<White>>)

\* C6 witness: the two spellings of white have been extracted as one entry.
C6_Witness ==
    /\ pc = "extract_colors"
    /\ css_text = C6Input
    /\ ImageFailed(soup)
    /\ Len(result.value) = 1

\* the candidates in merge order: hex literals, rgb literals, image colours
MergedCandidates == HexCandidates(css_text) \o RgbCandidates(css_text) \o ImageCandidates(soup)

\* the index of the first occurrence of c in s
FirstIndex(s, c) == CHOOSE i \in 1..Len(s) : s[i] = c /\ \A j \in 1..(i - 1) : s[j] # c

\* the number of distinct elements of s that stand before the first c
Rank(s, c) == Cardinality({s[j] : j \in 1..(FirstIndex(s, c) - 1)})

\* r is s without the repetitions of earlier elements, cut to its first n
IsFirstUnique(r, s, n) ==
    /\ \A i \in 1..Len(r) : r[i] \in Range(s) /\ Rank(s, r[i]) = i - 1
    /\ \A c \in Range(s) : Rank(s, c) < n => c \in Range(r)

C8_ImageFailureSwallowed ==
    (pc = "extract_colors" /\ ImageFailed(soup)) =>
        /\ ~result.raised
        /\ result = extract_colors(css_text, NoSoup)

\* C8 witness: the image request ended in an HTTP error status although its
\* body would decode, and the literals alone were returned.
C8_Witness ==
    /\ pc = "extract_colors"
    /\ soup.img /\ soup.src /\ soup.fetch = "http_error" /\ soup.decodable
    /\ Len(result.value) > 0

\* the six-digit form the normalisation is described to give a hex literal
\* of 3, 4, 6 or 8 digits: digits doubled, alpha digits dropped, lower case
SixDigitForm(lit) ==
    LowerStr(IF Len(lit) \in {4, 5}
             THEN <<"#", lit[2], lit[2], lit[3], lit[3], lit[4], lit[4]>>
             ELSE SubSeq(lit, 1, 7))

\* C21: every hex literal of 3, 4, 6 or 8 digits that extract_colors matches
\* is normalized to '#' plus six lowercase digits (3: each digit doubled,
\* 4: first three doubled and alpha dropped, 6: lower-cased, 8: first six
\* kept), and that form is what enters the result.
C21_Claim ==
    pc = "extract_colors" =>
        LET found == FindHexColors(css_text, 1)
            candidates == HexCandidates(css_text)
        IN  \A i \in 1..Len(found) :
                Len(found[i]) \in {4, 5, 7, 9} =>
                    /\ candidates[i] = SixDigitForm(found[i])
                    /\ Len(result.value) < MaxColors
                           => SixDigitForm(found[i]) \in Range(result.value)

\* the value of the two hexadecimal digits of c at positions i and i + 1
PairValue(c, i) == 16 * HexVal(c[i]) + HexVal(c[i + 1])

\* C22: every rgb()/rgba() literal that extract_colors matches contributes
\* exactly one candidate, '#' followed by exactly six hex digits, two per
\* component, that encode its first three numbers, whatever their magnitude;
\* the alpha component has no influence.
C22_Claim ==
    pc = "extract_colors" =>
        LET found == FindRgbColors(css_text, 1)
        IN  \A i \in 1..Len(found) :
                LET numbers == FindNumbers(found[i], 1)
                    made == RgbToHex(found[i])
                IN  /\ Len(made) = 1
                    /\ IsHex6Lower(made[1])
                    /\ \A k \in 1..3 : PairValue(made[1], 2 * k) = numbers[k]
                    /\ Len(result.value) < MaxColors => made[1] \in Range(result.value)

----------------------------------------------------------------------------
(* extract_fonts                                                           *)

MaxFonts == 5

FontFamily == <<"f","o","n","t","-","f","a","m","i","l","y">>

RECURSIVE SplitOn(_, _)
\* str.split(sep) for a one-character separator
SplitOn(s, sep) ==
    IF \A i \in 1..Len(s) : s[i] # sep THEN <<s>>
    ELSE LET k == CHOOSE i \in 1..Len(s) : s[i] = sep /\ \A j \in 1..(i - 1) : s[j] # sep
         IN  <<SubSeq(s, 1, k - 1)>> \o SplitOn(SubSeq(s, k + 1, Len(s)), sep)

\* a cleaning that trims the whitespace and leaves the quotes
CleanTokenKeepQuotes(f) == StripChars(f, SpaceChars)

\* f.strip().strip('"\'')
CleanToken(f) == StripChars(StripChars(f, SpaceChars), QuoteChars)

\* [f.strip().strip('"\'') for f in value.split(',')]
FontList(value) ==
    LET parts == SplitOn(value, ",")
    IN  [i \in 1..Len(parts) |-> CleanToken(parts[i])]

\* the fonts one rule of the parsed sheet contributes
RuleFonts(rule) ==
    LET valueFonts(prop) == IF prop.name = FontFamily THEN FontList(prop.value) ELSE <<>>
    IN  IF rule.type = "STYLE_RULE" THEN FlatMap(valueFonts, rule.style) ELSE <<>>

\* the try block: the fonts of every style rule of the parsed sheet
StructuredFonts(rules) == FlatMap(RuleFonts, rules)

\* font-family, whatever the letter case, at index i
FontFamilyAt(s, i) == LowerStr(Slice(s, i - 1, i - 1 + Len(FontFamily))) = FontFamily

\* font_pattern at index i: <<first, last>> of the captured value, <<>> when
\* the pattern does not match there.  [^;]+ needs one character: when the
\* whitespace after the colon runs up to a ';' or to the end, \s* gives its
\* last character back to the group.
FontMatchAt(s, i) ==
    LET colon == RunEnd(s, i + Len(FontFamily), SpaceChars)
        start == RunEnd(s, colon + 1, SpaceChars)
        stop == RunEnd(s, start, {s[j] : j \in 1..Len(s)} \ {";"})
    IN  IF ~FontFamilyAt(s, i) \/ colon > Len(s) \/ s[colon] # ":" THEN <<>>
        ELSE IF stop > start THEN <<start, stop - 1>>
        ELSE IF start > colon + 1 THEN <<start - 1, start - 1>>
        ELSE <<>>

RECURSIVE FindFontValues(_, _)
\* re.findall(font_pattern, css_text, re.IGNORECASE), scanning from index i
FindFontValues(s, i) ==
    LET starts == {j \in i..Len(s) : FontMatchAt(s, j) # <<>>}
    IN  IF starts = {} THEN <<>>
        ELSE LET m == FontMatchAt(s, MinOf(starts))
             IN  <<SubSeq(s, m[1], m[2])>> \o FindFontValues(s, m[2] + 1)

\* the except block: the fonts of every match of the pattern
FallbackFonts(text) == FlatMap(FontList, FindFontValues(text, 1))

\* the list fonts as the try/except leaves it; parsed is the outcome of
\* cssutils.parseString(css_text)
FontCandidates(text, parsed) ==
    IF parsed.raised THEN FallbackFonts(text) ELSE StructuredFonts(parsed.value)

RECURSIVE UniqueFontsKeepEmpty(_, _)
\* a loop that does not test the font for emptiness
UniqueFontsKeepEmpty(s, seen) ==
    IF s = <<>> THEN <<>>
    ELSE IF Head(s) \in seen THEN UniqueFontsKeepEmpty(Tail(s), seen)
         ELSE <<Head(s)>> \o UniqueFontsKeepEmpty(Tail(s), seen \cup {Head(s)})

RECURSIVE UniqueFonts(_, _)
\* the loop: if font and font not in seen
UniqueFonts(s, seen) ==
    IF s = <<>> THEN <<>>
    ELSE IF Head(s) = <<>> \/ Head(s) \in seen THEN UniqueFonts(Tail(s), seen)
         ELSE <<Head(s)>> \o UniqueFonts(Tail(s), seen \cup {Head(s)})

extract_fonts(text, parsed) ==
    Return(Take(UniqueFonts(FontCandidates(text, parsed), {}), MaxFonts))

----------------------------------------------------------------------------
(* extract_fonts applied to bounded style texts.  Each rule of the library *)
(* comes with the rule object cssutils makes of it: the property names     *)
(* lower-cased, the value serialised with ", " between its items and with  *)
(* double quotes around its strings; an at-rule is not a style rule.       *)

Property(name, value) == [name |-> name, value |-> value]
CssRule(type, style) == [type |-> type, style |-> style]

\* div{font-family: 'Helvetica Neue', Arial, sans-serif;}
FontRuleQuotedText ==
    <<"d","i","v","{","f","o","n","t","-","f","a","m","i","l","y",":"," ","'",
      "H","e","l","v","e","t","i","c","a"," ","N","e","u","e","'",","," ","A",
      "r","i","a","l",","," ","s","a","n","s","-","s","e","r","i","f",";",
      "}">>
FontRuleQuoted ==
    [text |-> FontRuleQuotedText,
     rule |-> CssRule("STYLE_RULE", <<Property(<<"f","o","n","t","-","f","a","m","i","l","y">>,
                   <<"\"","H","e","l","v","e","t","i","c","a"," ","N","e","u","e","\"",","," ","A","r","i","a","l",","," ","s","a","n","s","-","s","e","r","i","f">>)>>)]

\* body{font-family:Georgia,serif;color:#333}
FontRuleBodyText ==
    <<"b","o","d","y","{","f","o","n","t","-","f","a","m","i","l","y",":","G",
      "e","o","r","g","i","a",",","s","e","r","i","f",";","c","o","l","o","r",
      ":","#","3","3","3","}">>
FontRuleBody ==
    [text |-> FontRuleBodyText,
     rule |-> CssRule("STYLE_RULE", <<Property(<<"f","o","n","t","-","f","a","m","i","l","y">>,
                   <<"G","e","o","r","g","i","a",","," ","s","e","r","i","f">>),
          Property(<<"c","o","l","o","r">>,
                   <<"#","3","3","3">>)>>)]

\* code{font-family:"Fira Mono" , Menlo,monospace}
FontRuleCodeText ==
    <<"c","o","d","e","{","f","o","n","t","-","f","a","m","i","l","y",":",
      "\"","F","i","r","a"," ","M","o","n","o","\""," ",","," ","M","e","n",
      "l","o",",","m","o","n","o","s","p","a","c","e","}">>
FontRuleCode ==
    [text |-> FontRuleCodeText,
     rule |-> CssRule("STYLE_RULE", <<Property(<<"f","o","n","t","-","f","a","m","i","l","y">>,
                   <<"\"","F","i","r","a"," ","M","o","n","o","\"",","," ","M","e","n","l","o",","," ","m","o","n","o","s","p","a","c","e">>)>>)]

\* h1{font-family:arial,Arial,Tahoma,Times;}
FontRuleCaseText ==
    <<"h","1","{","f","o","n","t","-","f","a","m","i","l","y",":","a","r","i",
      "a","l",",","A","r","i","a","l",",","T","a","h","o","m","a",",","T","i",
      "m","e","s",";","}">>
FontRuleCase ==
    [text |-> FontRuleCaseText,
     rule |-> CssRule("STYLE_RULE", <<Property(<<"f","o","n","t","-","f","a","m","i","l","y">>,
                   <<"a","r","i","a","l",","," ","A","r","i","a","l",","," ","T","a","h","o","m","a",","," ","T","i","m","e","s">>)>>)]

\* p{font-family:" Inter ",'', Arial}
FontRulePaddedText ==
    <<"p","{","f","o","n","t","-","f","a","m","i","l","y",":","\""," ","I",
      "n","t","e","r"," ","\"",",","'","'",","," ","A","r","i","a","l","}">>
FontRulePadded ==
    [text |-> FontRulePaddedText,
     rule |-> CssRule("STYLE_RULE", <<Property(<<"f","o","n","t","-","f","a","m","i","l","y">>,
                   <<"\""," ","I","n","t","e","r"," ","\"",","," ","\"","\"",","," ","A","r","i","a","l">>)>>)]

\* em{FONT-FAMILY:Verdana;}
FontRuleUpperText ==
    <<"e","m","{","F","O","N","T","-","F","A","M","I","L","Y",":","V","e","r",
      "d","a","n","a",";","}">>
FontRuleUpper ==
    [text |-> FontRuleUpperText,
     rule |-> CssRule("STYLE_RULE", <<Property(<<"f","o","n","t","-","f","a","m","i","l","y">>,
                   <<"V","e","r","d","a","n","a">>)>>)]

\* @media print{a{font-family:Courier}}
FontRuleMediaText ==
    <<"@","m","e","d","i","a"," ","p","r","i","n","t","{","a","{","f","o","n",
      "t","-","f","a","m","i","l","y",":","C","o","u","r","i","e","r","}",
      "}">>
FontRuleMedia ==
    [text |-> FontRuleMediaText,
     rule |-> CssRule("MEDIA_RULE", <<>>)]

\* span{color:red}
FontRuleNoneText ==
    <<"s","p","a","n","{","c","o","l","o","r",":","r","e","d","}">>
FontRuleNone ==
    [text |-> FontRuleNoneText,
     rule |-> CssRule("STYLE_RULE", <<Property(<<"c","o","l","o","r">>,
                   <<"r","e","d">>)>>)]

\* i{font-family: ;}
FontRuleBlankText ==
    <<"i","{","f","o","n","t","-","f","a","m","i","l","y",":"," ",";","}">>
\* a declaration without a value is dropped by the parser
FontRuleBlank ==
    [text |-> FontRuleBlankText,
     rule |-> CssRule("STYLE_RULE", <<>>)]

FontRules == {FontRuleBlank,
             FontRuleQuoted,
             FontRuleBody,
             FontRuleCode,
             FontRuleCase,
             FontRulePadded,
             FontRuleUpper,
             FontRuleMedia,
             FontRuleNone}

\* the style texts with the outcome of parsing them: the rules, or an exception
ParsedTexts ==
    UNION {{[text |-> JoinRules([i \in 1..Len(rs) |-> rs[i].text]), sheet |-> parsed] :
                parsed \in {Return([i \in 1..Len(rs) |-> rs[i].rule]), Raise("Exception")}} :
            rs \in StringsUpTo(FontRules, MaxRules)}

InitFonts ==
    /\ pc = "call"
    /\ \E t \in ParsedTexts : css_text = t.text /\ sheet = t.sheet
    /\ soup = NoSoup
    /\ result = NoResult
    /\ ConvIdle
    /\ RenderIdle
    /\ PipelineIdle

CallExtractFonts ==
    /\ pc = "call"
    /\ pc' = "extract_fonts"
    /\ result' = extract_fonts(css_text, sheet)
    /\ UNCHANGED <<hex_color, amount, css_text, soup, sheet, data,
                   output_format, templates, pipeline>>

NextFonts == CallExtractFonts

SpecFonts == InitFonts /\ [][NextFonts]_vars

----------------------------------------------------------------------------
(* Properties of extract_fonts.                                            *)

NonEmpty(f) == f # <<>>

\* the non-empty font tokens in the order of the declarations they come from
FontTokens == SelectSeq(FontCandidates(css_text, sheet), NonEmpty)

\* C9: extract_fonts returns at most 5 font names, pairwise distinct under
\* exact (case-sensitive) comparison, none of them empty, in the order of
\* their first occurrence in the declarations.
C9_FontsBoundedUniqueOrdered ==
    pc = "extract_fonts" =>
        /\ ~result.raised
        /\ Len(result.value) <= 5
        /\ PairwiseDistinct(result.value)
        /\ \A i \in 1..Len(result.value) : result.value[i] # <<>>
        /\ IsFirstUnique(result.value, FontTokens, 5)

\* C9 witness: the declarations name more than five distinct fonts, and two
\* that differ in case only, and five have been returned.
C9_Witness ==
    /\ pc = "extract_fonts"
    /\ Cardinality(Range(FontTokens)) > 5
    /\ \E f, h \in Range(FontTokens) : f # h /\ LowerStr(f) = LowerStr(h)
    /\ Len(result.value) = 5

\* Helvetica Neue
HelveticaNeue ==
    <<"H","e","l","v","e","t","i","c","a"," ","N","e","u","e">>
\* Arial
Arial ==
    <<"A","r","i","a","l">>
\* sans-serif
SansSerif ==
    <<"s","a","n","s","-","s","e","r","i","f">>

EndsClean(f, chars) == f # <<>> /\ f[1] \notin chars /\ f[Len(f)] \notin chars

\* C10 as stated: every returned font name is a token with its surrounding
\* whitespace and quotes removed, so that none starts or ends with whitespace
\* or a quote; the text "div{font-family: 'Helvetica Neue', Arial,
\* sans-serif;}" gives ["Helvetica Neue", "Arial", "sans-serif"].
C10_Original ==
    pc = "extract_fonts" =>
        /\ \A i \in 1..Len(result.value) :
              EndsClean(result.value[i], SpaceChars \cup QuoteChars)
        /\ css_text = FontRuleQuotedText
              => result = Return(<<HelveticaNeue, Arial, SansSerif>>)

\* the comma-separated tokens of the font-family values as they stand in the
\* declarations, before any cleaning
RawFontTokens ==
    LET split(value) == SplitOn(value, ",")
        familyValue(prop) == IF prop.name = FontFamily THEN <<prop.value>> ELSE <<>>
        ruleValues(rule) ==
            IF rule.type = "STYLE_RULE" THEN FlatMap(familyValue, rule.style) ELSE <<>>
    IN  FlatMap(split, IF sheet.raised THEN FindFontValues(css_text, 1)
                       ELSE FlatMap(ruleValues, sheet.value))

\* C10 amended: every returned font name is a comma-separated token of a
\* font-family value with its surrounding whitespace removed and then its
\* surrounding quotes removed, without a second trim: none is empty, none
\* starts or ends with a quote, and one starts or ends with whitespace only
\* where that whitespace stood inside the quotes; the text
\* "div{font-family: 'Helvetica Neue', Arial, sans-serif;}" gives
\* ["Helvetica Neue", "Arial", "sans-serif"].
C10_Amended ==
    pc = "extract_fonts" =>
        /\ \A i \in 1..Len(result.value) :
              /\ EndsClean(result.value[i], QuoteChars)
              /\ \E t \in Range(RawFontTokens) :
                    LET trimmed == StripChars(t, SpaceChars)
                    IN  /\ result.value[i] = StripChars(trimmed, QuoteChars)
                        /\ ~EndsClean(result.value[i], SpaceChars)
                              => ~EndsClean(trimmed, QuoteChars)
        /\ css_text = FontRuleQuotedText
              => result = Return(<<HelveticaNeue, Arial, SansSerif>>)

\* C10 witness: the quoted declaration has been split, trimmed and unquoted.
C10_Witness ==
    /\ pc = "extract_fonts"
    /\ css_text = FontRuleQuotedText
    /\ result.value = <<HelveticaNeue, Arial, SansSerif>>

\* C23: on a style text that the structured parse accepts, declarations
\* inside at-rules included, the font list made from the parsed sheet equals
\* the font list the fallback pattern scan makes of the same text.
C23_Claim ==
    (pc = "extract_fonts" /\ ~sheet.raised)
        => result = extract_fonts(css_text, Raise("Exception"))

----------------------------------------------------------------------------
(* The two extractors side by side: each behaviour is one call of          *)
(* extract_colors on a text and page made for it, or one call of           *)
(* extract_fonts on a text that comes with the outcome of parsing it.      *)

InitExtract == InitColors \/ InitFonts

NextExtract ==
    \/ sheet = NoResult /\ CallExtractColors
    \/ (sheet # NoResult \/ css_text = <<>>) /\ soup = NoSoup /\ CallExtractFonts

SpecExtract == InitExtract /\ [][NextExtract]_vars

\* C30: repetitions are dropped before the list is cut: extract_colors
\* returns min(10, number of distinct normalized candidates) colours and
\* extract_fonts returns min(5, number of distinct non-empty tokens) fonts.
C30_DedupBeforeCut ==
    /\ pc = "extract_colors" =>
          Len(result.value) = Min2(10, Cardinality(Range(MergedCandidates)))
    /\ pc = "extract_fonts" =>
          Len(result.value) = Min2(5, Cardinality(Range(FontTokens)))

\* C30 witness: among the first ten colour candidates one repeats an
\* earlier one, a later candidate is new, and the new one has been returned.
C30_Witness ==
    /\ pc = "extract_colors"
    /\ LET c == MergedCandidates
       IN  /\ Len(c) > MaxColors
           /\ \E i, j \in 1..MaxColors : i < j /\ c[i] = c[j]
           /\ \E k \in (MaxColors + 1)..Len(c) :
                 /\ \A i \in 1..(k - 1) : c[i] # c[k]
                 /\ c[k] \in Range(result.value)

----------------------------------------------------------------------------
(* The scanners of the raw style text that the modern style sheet uses.    *)

\* the index of the first occurrence of character c at or after i, 0 for none
IndexFrom(s, i, c) ==
    LET e == RunEnd(s, i, {s[j] : j \in 1..Len(s)} \ {c})
    IN  IF e <= Len(s) THEN e ELSE 0

LiteralAt(s, i, lit) == Slice(s, i - 1, i - 1 + Len(lit)) = lit

\* the index after a match of  lit [^{]* { [^}]* }  at i, 0 for none
BlockMatchEnd(s, i, lit) ==
    LET open == IF LiteralAt(s, i, lit) THEN IndexFrom(s, i + Len(lit), "{") ELSE 0
        close == IF open = 0 THEN 0 ELSE IndexFrom(s, open + 1, "}")
    IN  IF close = 0 THEN 0 ELSE close + 1

\* the index after a match of  lit \( [^)]* \)  at i, 0 for none
CallMatchEnd(s, i, lit) ==
    LET close == IF LiteralAt(s, i, lit \o <<"(">>)
                 THEN IndexFrom(s, i + Len(lit) + 1, ")") ELSE 0
    IN  IF close = 0 THEN 0 ELSE close + 1

RECURSIVE FindAll(_, _, _)
\* re.findall for a pattern given by MatchEnd(s, i): the index after the match
\* at i, 0 when there is none
FindAll(MatchEnd(_, _), s, i) ==
    LET starts == {j \in i..Len(s) : MatchEnd(s, j) > 0}
    IN  IF starts = {} THEN <<>>
        ELSE LET j == MinOf(starts)
             IN  <<SubSeq(s, j, MatchEnd(s, j) - 1)>> \o FindAll(MatchEnd, s, MatchEnd(s, j))

ContainerKeyword == <<"@","c","o","n","t","a","i","n","e","r">>
HasKeyword == <<":","h","a","s">>

ContainerMatchEnd(s, i) == BlockMatchEnd(s, i, ContainerKeyword)
HasMatchEnd(s, i) == CallMatchEnd(s, i, HasKeyword)

\* detect_modern_css_features: the dictionary, of which the renderer reads
\* the two keys below
detect_modern_css_features(text) ==
    [container_queries |-> FindAll(ContainerMatchEnd, text, 1),
     has_selectors |-> FindAll(HasMatchEnd, text, 1)]

PropNameChars ==
    Range(Digits) \cup Range(UpperLetters) \cup Range(LowerLetters) \cup {"-", "_"}

\* prop_pattern at index i: <<name first, name last, value first, value last>>,
\* <<>> when the pattern does not match there.  As in font_pattern, the group
\* [^;}]+ takes back one whitespace character when nothing else is left to it.
PropMatchAt(s, i) ==
    LET nameEnd == RunEnd(s, i + 2, PropNameChars)
        colon == RunEnd(s, nameEnd, SpaceChars)
        start == RunEnd(s, colon + 1, SpaceChars)
        stop == RunEnd(s, start, {s[j] : j \in 1..Len(s)} \ {";", "}"})
    IN  IF ~LiteralAt(s, i, <<"-", "-">>) \/ nameEnd = i + 2
           \/ colon > Len(s) \/ s[colon] # ":" THEN <<>>
        ELSE IF stop > start THEN <<i + 2, nameEnd - 1, start, stop - 1>>
        ELSE IF start > colon + 1 THEN <<i + 2, nameEnd - 1, start - 1, start - 1>>
        ELSE <<>>

RECURSIVE FindProps(_, _)
\* re.findall(prop_pattern, css_text): the (name, value) pairs
FindProps(s, i) ==
    LET starts == {j \in i..Len(s) : PropMatchAt(s, j) # <<>>}
    IN  IF starts = {} THEN <<>>
        ELSE LET m == PropMatchAt(s, MinOf(starts))
             IN  <<[name |-> SubSeq(s, m[1], m[2]), value |-> SubSeq(s, m[3], m[4])]>>
                 \o FindProps(s, m[4] + 1)

RECURSIVE StorePropsKeepFirst(_, _)
\* a loop that does not overwrite: the first declaration of a name wins
StorePropsKeepFirst(matches, dict) ==
    IF matches = <<>> THEN dict
    ELSE LET key == <<"-", "-">> \o Head(matches).name
             value == RStripChars(StripChars(Head(matches).value, SpaceChars), {";"})
         IN  StorePropsKeepFirst(Tail(matches),
                                 IF \E k \in 1..Len(dict) : dict[k].name = key THEN dict
                                 ELSE Append(dict, [name |-> key, value |-> value]))

RECURSIVE StoreProps(_, _)
\* the loop custom_props[f'--{prop_name}'] = value over the matches: a
\* dictionary as the list of its items in insertion order
StoreProps(matches, dict) ==
    IF matches = <<>> THEN dict
    ELSE LET key == <<"-", "-">> \o Head(matches).name
             value == RStripChars(StripChars(Head(matches).value, SpaceChars), {";"})
             at == {k \in 1..Len(dict) : dict[k].name = key}
         IN  StoreProps(Tail(matches),
                        IF at = {} THEN Append(dict, [name |-> key, value |-> value])
                        ELSE [k \in 1..Len(dict) |->
                                 IF k \in at THEN [name |-> key, value |-> value]
                                 ELSE dict[k]])

extract_css_custom_properties(text) == StoreProps(FindProps(text, 1), <<>>)

----------------------------------------------------------------------------
(* The renderers.  A document is the sequence of its parts: Part(kind,     *)
(* name, value), the name a sequence of fragments whose concatenation is   *)
(* the name in the output, the value the text written for it.  The empty   *)
(* document is the empty string.                                           *)

Part(kind, name, value) == [kind |-> kind, name |-> name, value |-> value]

Numbered(base, i) == <<base>> \o DigitsOf(i, 10)

RECURSIVE Contains(_, _)
\* sub in s
Contains(s, sub) ==
    IF Len(s) < Len(sub) THEN FALSE
    ELSE SubSeq(s, 1, Len(sub)) = sub \/ Contains(Tail(s), sub)

Mono == <<"m","o","n","o">>
Consolas == <<"c","o","n","s","o","l","a","s">>
Courier == <<"c","o","u","r","i","e","r">>
Menlo == <<"m","e","n","l","o">>
Monospace == <<"m","o","n","o","s","p","a","c","e">>
Grey66 == <<"#","6","6","6","6","6","6">>
Grey99 == <<"#","9","9","9","9","9","9">>
DefaultBodyFont == <<"A","r","i","a","l",","," ","s","a","n","s","-","s","e","r","i","f">>
DefaultLinkColor == <<"#","0","0","0","0","e","e">>
OklchSecondaryDefault == <<"o","k","l","c","h","(","5","0","%"," ","0",".","1"," ","1","2","0","d","e","g",")">>

\* 'mono' in font.lower() or font.lower() in ['consolas', 'courier']
IsMonoForCss(font) ==
    Contains(LowerStr(font), Mono) \/ LowerStr(font) \in {Consolas, Courier}

\* next((font for font in data.fonts if ...), 'monospace')
FontMono(fonts) ==
    LET hits == SelectSeq(fonts, IsMonoForCss)
    IN  IF hits = <<>> THEN Monospace ELSE hits[1]

\* the declarations both style sheets make from the fonts and the computed styles
FontAndStyleVars(d) ==
    << Part("var", <<"--font-primary">>, IF d.fonts # <<>> THEN d.fonts[1] ELSE Arial),
       Part("var", <<"--font-secondary">>, IF Len(d.fonts) > 1 THEN d.fonts[2] ELSE SansSerif),
       Part("var", <<"--font-mono">>, FontMono(d.fonts)),
       Part("var", <<"--font-stack">>, d.body_font),
       Part("var", <<"--body-background">>, d.body_bg),
       Part("var", <<"--heading-color">>, d.heading_color),
       Part("var", <<"--link-color">>, d.link_color),
       Part("var", <<"--text-color">>, d.heading_color) >>

ColorVars(d) ==
    [i \in 1..Len(d.colors) |-> Part("var", Numbered("--color-", i), d.colors[i])]

generate_css_output(d) ==
    Return(
        <<Part("header", <<"Generated from">>, d.url)>>
        \o ColorVars(d)
        \o << Part("var", <<"--color-primary">>, IF d.colors # <<>> THEN d.colors[1] ELSE Black),
              Part("var", <<"--color-secondary">>, IF Len(d.colors) > 1 THEN d.colors[2] ELSE Grey66),
              Part("var", <<"--color-accent">>, IF Len(d.colors) > 2 THEN d.colors[3] ELSE Grey99) >>
        \o FontAndStyleVars(d)
        \o FlatMap(LAMBDA i :
                     << Part("class", Numbered(".bg-color-", i), Numbered("--color-", i)),
                        Part("class", Numbered(".text-color-", i), Numbered("--color-", i)),
                        Part("class", Numbered(".border-color-", i), Numbered("--color-", i)) >>,
                   [i \in 1..Len(d.colors) |-> i])
        \o [i \in 1..5 |-> Part("class", Numbered(".palette-", i), Numbered("--color-", i))])

\* the value of a dictionary at a key, a KeyError when the key is absent
Lookup(dict, key) ==
    IF key \in DOMAIN dict THEN Return(dict[key]) ELSE Raise("KeyError")

\* the characters of property names in code-point order
CodeOrder == <<"-">> \o Digits \o UpperLetters \o <<"_">> \o LowerLetters

CodeRank(c) == CHOOSE k \in 1..Len(CodeOrder) : CodeOrder[k] = c

RECURSIVE StrLess(_, _)
\* a < b for two str
StrLess(a, b) ==
    IF b = <<>> THEN FALSE
    ELSE IF a = <<>> THEN TRUE
    ELSE IF Head(a) = Head(b) THEN StrLess(Tail(a), Tail(b))
    ELSE CodeRank(Head(a)) < CodeRank(Head(b))

RECURSIVE InsertByName(_, _)
InsertByName(sorted, e) ==
    IF sorted = <<>> THEN <<e>>
    ELSE IF StrLess(e.name, Head(sorted).name) THEN <<e>> \o sorted
    ELSE <<Head(sorted)>> \o InsertByName(Tail(sorted), e)

RECURSIVE SortedItems(_)
\* sorted(custom_props.items()): the keys are distinct, so the order is theirs
SortedItems(items) ==
    IF items = <<>> THEN <<>>
    ELSE InsertByName(SortedItems(Tail(items)), Head(items))

OklchPrimaryDefault ==
    <<"o","k","l","c","h","(","5","0","%"," ","0",".","1"," ","0","d","e","g",")">>

\* ColorConverter.hex_to_oklch_string(color) for color in data.colors
OklchColors(colors) ==
    [i \in 1..Len(colors) |-> hex_to_oklch_string(colors[i]).value]

\* the :root block and the utility classes, which no lookup precedes; oklch is
\* OklchColors(d.colors)
ModernCssHead(d, custom_props, oklch) ==
    <<Part("header", <<"Generated from">>, d.url)>>
    \o ColorVars(d)
    \o [i \in 1..Len(d.colors) |->
           Part("var", Numbered("--color-", i) \o <<"-oklch">>, oklch[i])]
    \o << Part("var", <<"--color-primary">>,
               IF d.colors # <<>> THEN d.colors[1] ELSE Black),
          Part("var", <<"--color-primary-oklch">>,
               IF d.colors # <<>> THEN oklch[1]
               ELSE OklchPrimaryDefault),
          Part("var", <<"--color-secondary">>,
               IF Len(d.colors) > 1 THEN d.colors[2] ELSE Grey66),
          Part("var", <<"--color-secondary-oklch">>,
               IF Len(d.colors) > 1 THEN oklch[2]
               ELSE OklchSecondaryDefault) >>
    \o FontAndStyleVars(d)
    \o (IF custom_props # <<>>
        THEN LET items == SortedItems(custom_props)
             IN  [i \in 1..Len(items) |-> Part("extracted", items[i].name, items[i].value)]
        ELSE <<>>)
    \o FlatMap(LAMBDA i :
                 << Part("class", Numbered(".bg-color-", i), Numbered("--color-", i)),
                    Part("class", Numbered(".bg-color-", i) \o <<"-oklch">>,
                         Numbered("--color-", i) \o <<"-oklch">>),
                    Part("class", Numbered(".text-color-", i), Numbered("--color-", i)),
                    Part("class", Numbered(".text-color-", i) \o <<"-oklch">>,
                         Numbered("--color-", i) \o <<"-oklch">>) >>,
               [i \in 1..Len(d.colors) |-> i])

generate_modern_css_output(d, text) ==
    LET custom_props == IF text # <<>> THEN extract_css_custom_properties(text) ELSE <<>>
        modern_features == IF text # <<>> THEN detect_modern_css_features(text) ELSE <<>>
        containers == Lookup(modern_features, "container_queries")
        has == Lookup(modern_features, "has_selectors")
    IN  IF containers.raised THEN containers
        ELSE IF has.raised THEN has
        ELSE Return(
            ModernCssHead(d, custom_props, OklchColors(d.colors))
            \o (IF containers.value # <<>>
                THEN <<Part("section", <<"Container Queries Detected">>, <<"@container">>)>>
                ELSE <<>>)
            \o (IF has.value # <<>>
                THEN <<Part("section", <<":has() Selector Patterns Detected">>, <<"--color-danger">>)>>
                ELSE <<>>)
            \o <<Part("section", <<"Usage Examples">>, <<"--color-primary-oklch">>)>>)

TailwindMono ==
    {Consolas, Courier, Menlo}

\* 'mono' in font.lower() or font.lower() in ['consolas', 'courier', 'menlo']
IsMonoForTailwind(font) ==
    Contains(LowerStr(font), Mono) \/ LowerStr(font) \in TailwindMono

\* the keys of the entry 'primary' with the direction and the tenths of each
\* shade; '400' and '500' are the colour itself
ShadeSteps ==
    << <<"50", "lighten", 4>>, <<"100", "lighten", 3>>, <<"200", "lighten", 2>>,
       <<"300", "lighten", 1>>, <<"400", "base", 0>>, <<"500", "base", 0>>,
       <<"600", "darken", 1>>, <<"700", "darken", 2>>, <<"800", "darken", 3>>,
       <<"900", "darken", 4>> >>

\* a ramp with a single base step: 400 is one more lightening step
PrimaryShadesSingleBase(color) ==
    [j \in 1..Len(ShadeSteps) |->
        Part("shade", <<"primary", ShadeSteps[j][1]>>,
             IF j <= 5 THEN _lighten_color(color, 6 - j).value
             ELSE IF ShadeSteps[j][2] = "darken"
             THEN _darken_color(color, ShadeSteps[j][3]).value
             ELSE color)]

PrimaryShades(color) ==
    [j \in 1..Len(ShadeSteps) |->
        Part("shade", <<"primary", ShadeSteps[j][1]>>,
             IF ShadeSteps[j][2] = "lighten"
             THEN _lighten_color(color, ShadeSteps[j][3]).value
             ELSE IF ShadeSteps[j][2] = "darken"
             THEN _darken_color(color, ShadeSteps[j][3]).value
             ELSE color)]

generate_tailwind_config_numbered_first(d) ==
    LET palette == Take(d.colors, MaxColors)
        mono_fonts == SelectSeq(d.fonts, IsMonoForTailwind)
        sans == Take(d.fonts, 3)
        mono == Take(mono_fonts, 2)
    IN  Return(
            <<Part("header", <<"Source">>, d.url)>>
            \o FlatMap(LAMBDA i : IF i = 1
                                  THEN PrimaryShades(palette[1])
                                       \o <<Part("color", Numbered("color-", i), palette[i])>>
                                  ELSE <<Part("color", Numbered("color-", i), palette[i])>>,
                       [i \in 1..Len(palette) |-> i])
            \o [i \in 1..Len(sans) |-> Part("fontFamily", <<"sans">>, sans[i])]
            \o [i \in 1..Len(mono) |-> Part("fontFamily", <<"mono">>, mono[i])])

generate_tailwind_config(d) ==
    LET palette == Take(d.colors, MaxColors)
        mono_fonts == SelectSeq(d.fonts, IsMonoForTailwind)
        sans == Take(d.fonts, 3)
        mono == Take(mono_fonts, 2)
    IN  Return(
            <<Part("header", <<"Source">>, d.url)>>
            \o FlatMap(LAMBDA i : IF i = 1 THEN PrimaryShades(palette[1])
                                  ELSE <<Part("color", Numbered("color-", i), palette[i])>>,
                       [i \in 1..Len(palette) |-> i])
            \o [i \in 1..Len(sans) |-> Part("fontFamily", <<"sans">>, sans[i])]
            \o [i \in 1..Len(mono) |-> Part("fontFamily", <<"mono">>, mono[i])])

\* any(mono in font.lower() for mono in ['mono', 'consolas', 'courier', 'menlo'])
IsMonoForTokens(font) ==
    \E word \in {Mono, Consolas, Courier, Menlo} : Contains(LowerStr(font), word)

\* f"{prefix}{i:02d}"
Numbered2(base, i) == <<base>> \o ZeroPad(DigitsOf(i, 10), 2)

ColorType == <<"c","o","l","o","r">>

\* f"Extracted color #{i+1}"
ExtractedColor(i) ==
    <<"E","x","t","r","a","c","t","e","d"," ","c","o","l","o","r"," ","#">>
    \o DigitsOf(i, 10)

\* palette entries that carry what a semantic entry carries: no oklch
PaletteTokensLikeSemantic(d, oklch) ==
    FlatMap(LAMBDA i :
              << Part("palette.value", Numbered2("color-", i), d.colors[i]),
                 Part("palette.type", Numbered2("color-", i), ColorType),
                 Part("palette.description", Numbered2("color-", i), ExtractedColor(i)) >>,
            [i \in 1..Len(d.colors) |-> i])

\* the palette entries given OklchColors(d.colors)
PaletteTokens(d, oklch) ==
    FlatMap(LAMBDA i :
              << Part("palette.value", Numbered2("color-", i), d.colors[i]),
                 Part("palette.oklch", Numbered2("color-", i), oklch[i]),
                 Part("palette.type", Numbered2("color-", i), ColorType),
                 Part("palette.description", Numbered2("color-", i), ExtractedColor(i)) >>,
            [i \in 1..Len(d.colors) |-> i])

generate_design_tokens(d) ==
    Return(
        PaletteTokens(d, OklchColors(d.colors))
        \o (IF d.body_bg # <<>>
            THEN <<Part("semantic", <<"background">>, d.body_bg)>> ELSE <<>>)
        \o (IF d.heading_color # <<>>
            THEN <<Part("semantic", <<"text-primary">>, d.heading_color)>> ELSE <<>>)
        \o (IF d.link_color # <<>>
            THEN <<Part("semantic", <<"text-link">>, d.link_color)>> ELSE <<>>)
        \o [i \in 1..Len(d.fonts) |->
               Part(IF IsMonoForTokens(d.fonts[i]) THEN "fontFamily.monospace"
                    ELSE "fontFamily.sans-serif",
                    Numbered2("font-", i), d.fonts[i])]
        \o <<Part("metadata", <<"source">>, d.url)>>)

generate_json_output(d) ==
    Return(
        << Part("url", <<"url">>, d.url),
           Part("styles", <<"body_background">>, d.body_bg),
           Part("styles", <<"body_font">>, d.body_font),
           Part("styles", <<"heading_color">>, d.heading_color),
           Part("styles", <<"link_color">>, d.link_color) >>
        \o [i \in 1..Len(d.colors) |-> Part("colors", DigitsOf(i - 1, 10), d.colors[i])]
        \o [i \in 1..Len(d.fonts) |-> Part("fonts", DigitsOf(i - 1, 10), d.fonts[i])]
        \o << Part("metadata", <<"total_colors_found">>, DigitsOf(Len(d.colors), 10)),
              Part("metadata", <<"total_fonts_found">>, DigitsOf(Len(d.fonts), 10)) >>)

\* the three template paths of a format below the template directory
TemplatePaths(format) ==
    LET ext == IF format = "mediawiki" THEN ".wiki" ELSE "." \o format
    IN  [kind \in {"base_", "color_table_", "font_table_"} |-> <<kind, format, ext>>]

\* the base template filled with the profile and the rows, one per colour and
\* one per font
FillTemplates(d, paths) ==
    << Part("base", paths["base_"], d.url),
       Part("base", <<"body_bg">>, d.body_bg),
       Part("base", <<"body_font">>, d.body_font),
       Part("base", <<"heading_color">>, d.heading_color),
       Part("base", <<"link_color">>, d.link_color) >>
    \o [i \in 1..Len(d.colors) |-> Part("color_row", paths["color_table_"], d.colors[i])]
    \o [i \in 1..Len(d.fonts) |-> Part("font_row", paths["font_table_"], d.fonts[i])]

\* a dispatcher that looks for the base template only
generate_template_base_only(d, format, dir) ==
    IF format = "json" THEN generate_json_output(d)
    ELSE IF format = "css" THEN generate_css_output(d)
    ELSE IF format = "modern-css" THEN generate_modern_css_output(d, d.css_text)
    ELSE IF format = "tailwind" THEN generate_tailwind_config(d)
    ELSE IF format = "design-tokens" THEN generate_design_tokens(d)
    ELSE IF ~dir.exists THEN Return(<<>>)
    ELSE LET paths == TemplatePaths(format)
         IN  IF paths["base_"] \notin dir.files
             THEN Return(<<>>)
             ELSE IF ~dir.readable THEN Return(<<>>)
             ELSE Return(FillTemplates(d, paths))

generate_template(d, format, dir) ==
    IF format = "json" THEN generate_json_output(d)
    ELSE IF format = "css" THEN generate_css_output(d)
    ELSE IF format = "modern-css" THEN generate_modern_css_output(d, d.css_text)
    ELSE IF format = "tailwind" THEN generate_tailwind_config(d)
    ELSE IF format = "design-tokens" THEN generate_design_tokens(d)
    ELSE IF ~dir.exists THEN Return(<<>>)
    ELSE LET paths == TemplatePaths(format)
         IN  IF \E kind \in DOMAIN paths : paths[kind] \notin dir.files
             THEN Return(<<>>)
             ELSE IF ~dir.readable THEN Return(<<>>)
             ELSE Return(FillTemplates(d, paths))

----------------------------------------------------------------------------
(* generate_template applied to bounded style profiles, every format of    *)
(* the command line and a template directory in each state of repair.      *)

MaxProfileItems == 3

\* @container card (min-width: 400px){.a{color:#ff0000}}
RenderRuleContainer ==
    <<"@","c","o","n","t","a","i","n","e","r"," ","c","a","r","d"," ","(","m",
      "i","n","-","w","i","d","t","h",":"," ","4","0","0","p","x",")","{",".",
      "a","{","c","o","l","o","r",":","#","f","f","0","0","0","0","}","}">>

\* .form:has(input){font-family:Menlo}
RenderRuleHas ==
    <<".","f","o","r","m",":","h","a","s","(","i","n","p","u","t",")","{","f",
      "o","n","t","-","f","a","m","i","l","y",":","M","e","n","l","o","}">>

\* :root{--gap:4px;--brand: #0080ff ;--gap:8px}
RenderRuleProps ==
    <<":","r","o","o","t","{","-","-","g","a","p",":","4","p","x",";","-","-",
      "b","r","a","n","d",":"," ","#","0","0","8","0","f","f"," ",";","-","-",
      "g","a","p",":","8","p","x","}">>

RenderRules == {RenderRuleContainer, RenderRuleHas, RenderRuleProps}

\* https://example.com
ProfileUrl ==
    <<"h","t","t","p","s",":","/","/","e","x","a","m","p","l","e",".","c","o",
      "m">>

\* #ff0000
ColorRed ==
    <<"#","f","f","0","0","0","0">>

\* #0f08
ColorShortAlpha ==
    <<"#","0","f","0","8">>

\* #0080ff
ColorBlue ==
    <<"#","0","0","8","0","f","f">>

\* #00ff00
ColorGreen ==
    <<"#","0","0","f","f","0","0">>

\* Fira Mono
FontFiraMono ==
    <<"F","i","r","a"," ","M","o","n","o">>

\* Menlo
FontMenlo ==
    <<"M","e","n","l","o">>

\* Courier New
FontCourierNew ==
    <<"C","o","u","r","i","e","r"," ","N","e","w">>

\* Inter
FontInter ==
    <<"I","n","t","e","r">>

\* the colours and the fonts of a profile: the first n of these
ProfileColorPool == <<ColorRed, ColorShortAlpha, ColorBlue, ColorGreen>>
ProfileFontPool == <<FontInter, FontMenlo, FontCourierNew, FontFiraMono>>

Profiles ==
    { [url |-> ProfileUrl, colors |-> Take(ProfileColorPool, nc),
       fonts |-> Take(ProfileFontPool, nf), body_bg |-> White,
       heading_color |-> Black, link_color |-> DefaultLinkColor,
       body_font |-> DefaultBodyFont, css_text |-> text] :
      nc \in 0..MaxProfileItems, nf \in 0..MaxProfileItems,
      text \in TextsOf(RenderRules) }

\* the values of --format
Formats ==
    {"mediawiki", "json", "modern-css", "css", "tailwind", "design-tokens", "html"}

TemplateDriven == {"mediawiki", "html"}

ShippedTemplates ==
    {TemplatePaths(f)[kind] : f \in TemplateDriven,
                              kind \in {"base_", "color_table_", "font_table_"}}

\* the template directory: absent, complete, unreadable, or short of one file
TemplateDirs ==
    {NoTemplates, TemplateDir(TRUE, ShippedTemplates, TRUE),
     TemplateDir(TRUE, ShippedTemplates, FALSE)}
    \cup {TemplateDir(TRUE, ShippedTemplates \ {TemplatePaths("mediawiki")[kind]}, TRUE) :
          kind \in {"base_", "color_table_", "font_table_"}}

InitRender ==
    /\ pc = "call"
    /\ data \in Profiles
    /\ output_format \in Formats
    /\ templates \in TemplateDirs
    /\ result = NoResult
    /\ ConvIdle
    /\ ExtractIdle
    /\ PipelineIdle

CallGenerateTemplate ==
    /\ pc = "call"
    /\ pc' = "generate_template"
    /\ result' = generate_template(data, output_format, templates)
    /\ UNCHANGED <<hex_color, amount, css_text, soup, sheet, data,
                   output_format, templates, pipeline>>

NextRender == CallGenerateTemplate

SpecRender == InitRender /\ [][NextRender]_vars

----------------------------------------------------------------------------
(* generate_tailwind_config applied to profiles whose first colour varies  *)
(* channel by channel and whose list of colours is up to MaxColors long.   *)

\* channel values as two hex digits: 0, 1, 90, 127, 170, 180 (upper case), 255
RampBytes ==
    {<<"0","0">>, <<"0","1">>, <<"5","a">>, <<"7","f">>, <<"a","a">>,
     <<"B","4">>, <<"f","f">>}

\* the first colours: every combination of the channel values, and a
\* literal that cannot be decoded as three channels
RampColors ==
    {Hash \o r \o g \o b : r \in RampBytes, g \in RampBytes, b \in RampBytes}
    \cup {ColorShortAlpha}

\* #00000i
FlatColor(i) == <<"#","0","0","0","0","0">> \o DigitsOf(i, 10)

\* how many colours follow the first one
FlatCounts == 0..(MaxProfileItems - 1) \cup {MaxColors - 1}

TailwindProfiles ==
    { [url |-> ProfileUrl,
       colors |-> <<first>> \o [i \in 1..n |-> FlatColor(i)],
       fonts |-> Take(ProfileFontPool, 2), body_bg |-> White,
       heading_color |-> Black, link_color |-> DefaultLinkColor,
       body_font |-> DefaultBodyFont, css_text |-> <<>>] :
      first \in RampColors, n \in FlatCounts }

InitTailwind ==
    /\ pc = "call"
    /\ data \in TailwindProfiles
    /\ output_format = "tailwind"
    /\ templates = NoTemplates
    /\ result = NoResult
    /\ ConvIdle
    /\ ExtractIdle
    /\ PipelineIdle

NextTailwind == CallGenerateTemplate

SpecTailwind == InitTailwind /\ [][NextTailwind]_vars

----------------------------------------------------------------------------
(* Properties of the renderer.                                             *)

\* C2: for every style profile, one with an empty raw style text and one
\* without colours or fonts included, and every format, generate_template
\* returns a document and raises no exception.
C2_RendererNeverRaises ==
    pc = "generate_template" => ~result.raised

\* the entries of the colors block of a tailwind configuration, in order:
\* the shades of the ramp and the flat colour keys
ColorEntries(doc) ==
    SelectSeq(doc, LAMBDA p : p.kind \in {"shade", "color"})

RampKeys ==
    <<"50", "100", "200", "300", "400", "500", "600", "700", "800", "900">>

\* C11: the tailwind configuration of a profile with exactly one colour has
\* exactly one top-level key in its colors block, the ramp 'primary', whose
\* keys are exactly 50, 100, 200, ..., 900; there is no other colour key.
C11_SingleColorRamp ==
    (pc = "generate_template" /\ output_format = "tailwind"
        /\ Len(data.colors) = 1)
    => /\ ~result.raised
       /\ LET entries == ColorEntries(result.value)
          IN  [i \in 1..Len(entries) |-> <<entries[i].kind, entries[i].name>>]
              = [i \in 1..Len(RampKeys) |-> <<"shade", <<"primary", RampKeys[i]>> >>]

C11_Witness ==
    /\ pc = "generate_template" /\ output_format = "tailwind"
    /\ Len(data.colors) = 1
    /\ ~result.raised
    /\ Len(ColorEntries(result.value)) = 10

\* the ramp as it is described: four lightening steps, the colour twice,
\* four darkening steps
DescribedRamp(c) ==
    <<_lighten_color(c, 4).value, _lighten_color(c, 3).value,
      _lighten_color(c, 2).value, _lighten_color(c, 1).value,
      c, c,
      _darken_color(c, 1).value, _darken_color(c, 2).value,
      _darken_color(c, 3).value, _darken_color(c, 4).value>>

\* the keys of the colors block: 'primary' for the ramp, the name of a flat
\* entry for the others
TopLevelKeys(entries) ==
    {IF e.kind = "shade" THEN <<e.name[1]>> ELSE e.name : e \in Range(entries)}

\* C24: in the tailwind configuration the first colour c becomes the ramp
\* 50 = lighten(c, 0.4), 100 = lighten(c, 0.3), 200 = lighten(c, 0.2),
\* 300 = lighten(c, 0.1), 400 = c, 500 = c, 600 = darken(c, 0.1),
\* 700 = darken(c, 0.2), 800 = darken(c, 0.3), 900 = darken(c, 0.4); the
\* colour at position i, 2 <= i <= 10, becomes exactly one flat entry
\* color-i with its value unchanged; n >= 1 colours give n top-level keys.
C24_RampAndFlatEntries ==
    (pc = "generate_template" /\ output_format = "tailwind"
        /\ Len(data.colors) >= 1)
    => /\ ~result.raised
       /\ LET entries == ColorEntries(result.value)
              n == Len(data.colors)
              ramp == DescribedRamp(data.colors[1])
          IN  /\ Len(entries) = Len(RampKeys) + n - 1
              /\ \A j \in 1..Len(RampKeys) :
                    entries[j] = Part("shade", <<"primary", RampKeys[j]>>, ramp[j])
              /\ \A i \in 2..n :
                    entries[Len(RampKeys) + i - 1]
                        = Part("color", <<"color-">> \o DigitsOf(i, 10), data.colors[i])
              /\ Cardinality(TopLevelKeys(entries)) = n

\* C24 witness: a profile of ten colours has been rendered, with a first
\* colour that the steps change, into the ramp and the entries color-2 to
\* color-10.
C24_Witness ==
    /\ pc = "generate_template" /\ output_format = "tailwind"
    /\ Len(data.colors) = MaxColors
    /\ ~result.raised
    /\ LET entries == ColorEntries(result.value)
       IN  /\ Len(entries) = 19
           /\ entries[1].value # entries[5].value
           /\ entries[10].value # entries[5].value
           /\ entries[19].name = <<"color-", "1", "0">>

\* '#' followed by exactly six hexadecimal digits of either case
IsHex6(c) ==
    /\ Len(c) = 7
    /\ c[1] = "#"
    /\ \A i \in 2..7 : c[i] \in HexChars

\* the values of the ramp entries of a tailwind document, in key order
RampValues(doc) ==
    LET shades == SelectSeq(doc, LAMBDA p : p.kind = "shade")
    IN  [j \in 1..Len(shades) |-> shades[j].value]

\* C29: for every valid 6-digit hex first colour every step of the ramp is
\* a valid 6-digit hex colour, so that each of its channels lies in
\* [0, 255], and each channel is non-increasing along the keys 50, 100,
\* 200, 300, 400, 500, 600, 700, 800, 900.
C29_RampMonotone ==
    (pc = "generate_template" /\ output_format = "tailwind"
        /\ Len(data.colors) >= 1 /\ IsHex6(data.colors[1]))
    => /\ ~result.raised
       /\ LET ramp == RampValues(result.value)
          IN  /\ Len(ramp) = Len(RampKeys)
              /\ \A j \in 1..Len(ramp) :
                    /\ IsHex6(ramp[j])
                    /\ \A k \in 1..3 : PairValue(ramp[j], 2 * k) \in 0..255
              /\ \A j \in 1..(Len(ramp) - 1) : \A k \in 1..3 :
                    PairValue(ramp[j], 2 * k) >= PairValue(ramp[j + 1], 2 * k)

\* C29 witness: the ramp of #5aaaB4 has been made; its step 800 is #3e767d,
\* each channel one below the exact product with 0.7.
C29_Witness ==
    /\ pc = "generate_template" /\ output_format = "tailwind"
    /\ data.colors[1] = <<"#","5","a","a","a","B","4">>
    /\ ~result.raised
    /\ RampValues(result.value)[9] = <<"#","3","e","7","6","7","d">>
    /\ RampValues(result.value)[1] # RampValues(result.value)[10]

\* the entries a modern style sheet emits for the extracted custom properties
ExtractedParts(doc) == SelectSeq(doc, LAMBDA p : p.kind = "extracted")

\* The custom properties of the profile's style text are stored under their
\* names with marker in front, one entry per name, with the trimmed value of
\* the last declaration of the name; the modern style sheet emits exactly
\* these entries, once each, in the order of their names.
CustomPropsStoredUnder(marker) ==
    LET declared == FindProps(data.css_text, 1)
        stored == extract_css_custom_properties(data.css_text)
        emitted == ExtractedParts(result.value)
        isLast(j) == \A k \in (j + 1)..Len(declared) : declared[k].name # declared[j].name
    IN  /\ {e.name : e \in Range(stored)} = {marker \o m.name : m \in Range(declared)}
        /\ PairwiseDistinct([i \in 1..Len(stored) |-> stored[i].name])
        /\ \A j \in 1..Len(declared) :
              isLast(j) => [name |-> marker \o declared[j].name,
                            value |-> StripChars(declared[j].value, SpaceChars)]
                           \in Range(stored)
        /\ Len(emitted) = Len(stored)
        /\ {[name |-> e.name, value |-> e.value] : e \in Range(emitted)} = Range(stored)
        /\ \A i \in 1..(Len(emitted) - 1) : StrLess(emitted[i].name, emitted[i + 1].name)

\* C25 as stated: extract_css_custom_properties returns one entry per
\* declared custom property, keyed by the name without its leading "--",
\* holding the trimmed value of the last declaration of that name, and the
\* modern style sheet emits these entries once each, sorted by name.
C25_Original ==
    (pc = "generate_template" /\ output_format = "modern-css" /\ ~result.raised)
        => CustomPropsStoredUnder(<<>>)

\* C25 amended: the same, the entries being keyed by the name with its
\* leading "--".
C25_Amended ==
    (pc = "generate_template" /\ output_format = "modern-css" /\ ~result.raised)
        => CustomPropsStoredUnder(<<"-", "-">>)

\* C25 witness: a text that declares --gap, --brand and --gap again has been
\* rendered; --brand is emitted before --gap, which has its last value.
C25_Witness ==
    /\ pc = "generate_template" /\ output_format = "modern-css"
    /\ data.css_text = RenderRuleProps
    /\ ~result.raised
    /\ [i \in 1..2 |-> <<ExtractedParts(result.value)[i].name,
                          ExtractedParts(result.value)[i].value>>]
       = << <<<<"-","-","b","r","a","n","d">>, <<"#","0","0","8","0","f","f">>>>,
            <<<<"-","-","g","a","p">>, <<"8","p","x">>>> >>

\* --color-danger
ColorDanger == <<"-","-","c","o","l","o","r","-","d","a","n","g","e","r">>

HasSectionTitle == ":has() Selector Patterns Detected"

\* the custom properties a style sheet reads through var(...): those of its
\* utility and palette classes and the one of its :has() section
VarReferences(doc) ==
    {p.value : p \in {q \in Range(doc) :
                        \/ q.kind = "class"
                        \/ q.kind = "section" /\ q.name = <<HasSectionTitle>>}}

\* ref is declared in doc: in a :root block the renderer writes, or among the
\* extracted custom properties it copies
DeclaredIn(doc, ref) ==
    \/ \E p \in Range(doc) : p.kind = "var" /\ p.name = ref
    \/ /\ ref = <<"--color-danger">>
       /\ \E p \in Range(doc) : p.kind = "extracted" /\ p.name = ColorDanger

\* C28: in the plain and the modern style sheet every custom property read
\* through var(...) is declared in the same document, for every profile:
\* each --color-N of the utility classes and of the classes palette-1 to
\* palette-5, with fewer than 5 colours too, and --color-danger of the
\* :has() section.
C28_Claim ==
    (pc = "generate_template" /\ output_format \in {"css", "modern-css"}
        /\ ~result.raised)
    => \A ref \in VarReferences(result.value) : DeclaredIn(result.value, ref)

PaletteFields ==
    {"palette.value", "palette.oklch", "palette.type", "palette.description"}

\* the fields of the palette tokens of a design-tokens document
PaletteParts(doc) ==
    SelectSeq(doc, LAMBDA p : p.kind \in PaletteFields)

PaletteNames(doc) == {p.name : p \in Range(PaletteParts(doc))}

\* the parts a document stores for one field of one palette token
FieldParts(doc, name, field) ==
    SelectSeq(doc, LAMBDA p : p.name = name /\ p.kind = field)

\* C12: for every profile generate_design_tokens returns a document whose
\* palette has as many tokens as the profile has colours, and every token
\* carries a value (the colour), an oklch string, the type "color" and a
\* description.
C12_PaletteTokens ==
    (pc = "generate_template" /\ output_format = "design-tokens")
    => /\ ~result.raised
       /\ Cardinality(PaletteNames(result.value)) = Len(data.colors)
       /\ \A name \in PaletteNames(result.value) :
            /\ \A field \in PaletteFields :
                 /\ Len(FieldParts(result.value, name, field)) = 1
                 /\ FieldParts(result.value, name, field)[1].value # <<>>
            /\ FieldParts(result.value, name, "palette.type")[1].value = ColorType
       /\ \A i \in 1..Len(data.colors) :
            /\ Numbered2("color-", i) \in PaletteNames(result.value)
            /\ FieldParts(result.value, Numbered2("color-", i), "palette.value")[1].value
                 = data.colors[i]

C12_Witness ==
    /\ pc = "generate_template" /\ output_format = "design-tokens"
    /\ Len(data.colors) = MaxProfileItems
    /\ ~result.raised
    /\ Cardinality(PaletteNames(result.value)) = MaxProfileItems

\* the template directory as shipped
CompleteTemplates == TemplateDir(TRUE, ShippedTemplates, TRUE)

\* the directory, or one of the three templates of the format, is missing
TemplatesMissingFor(format, dir) ==
    \/ ~dir.exists
    \/ \E kind \in DOMAIN TemplatePaths(format) :
          TemplatePaths(format)[kind] \notin dir.files

\* C14: when the template directory or any one of the three templates of a
\* template-driven format is missing, generate_template returns the empty
\* document for that format and raises nothing, and what the five
\* programmatic formats render for the same profile is what they render
\* with the complete template directory.
C14_MissingTemplates ==
    pc = "generate_template"
    => /\ (output_format \in TemplateDriven
            /\ TemplatesMissingFor(output_format, templates))
          => result = Return(<<>>)
       /\ (output_format \notin TemplateDriven
            /\ \E f \in TemplateDriven : TemplatesMissingFor(f, templates))
          => result = generate_template(data, output_format, CompleteTemplates)

C14_Witness ==
    /\ pc = "generate_template" /\ output_format = "mediawiki"
    /\ templates.exists /\ templates.readable
    /\ TemplatePaths("mediawiki")["base_"] \in templates.files
    /\ TemplatePaths("mediawiki")["font_table_"] \notin templates.files
    /\ data.colors # <<>>
    /\ result = Return(<<>>)

\* the values of the parts of one kind and name, in document order
ValuesOf(doc, kind, name) ==
    LET parts == SelectSeq(doc, LAMBDA p : p.kind = kind /\ p.name = name)
    IN  [i \in 1..Len(parts) |-> parts[i].value]

\* the fonts a design-tokens document types fontFamily.monospace
TokensMonospace(doc) ==
    LET parts == SelectSeq(doc, LAMBDA p : p.kind = "fontFamily.monospace")
    IN  [i \in 1..Len(parts) |-> parts[i].value]

\* what a renderer that classifies as design-tokens does would write for
\* --font-mono: the first monospace font, or the default
FontMonoFrom(mono) ==
    <<IF mono = <<>> THEN Monospace ELSE mono[1]>>

\* C18: every renderer classifies a font as monospace by the same heuristic:
\* the fonts design-tokens types as monospace are the fonts of the tailwind
\* family 'mono' (its first two), and the first of them is the font of
\* --font-mono in css and in modern-css.
C18_Claim ==
    (pc = "generate_template" /\ output_format = "design-tokens"
        /\ ~result.raised)
    => LET mono == TokensMonospace(result.value)
           tailwind == generate_tailwind_config(data)
           css == generate_css_output(data)
           modern == generate_modern_css_output(data, data.css_text)
       IN  /\ ValuesOf(tailwind.value, "fontFamily", <<"mono">>) = Take(mono, 2)
           /\ ValuesOf(css.value, "var", <<"--font-mono">>) = FontMonoFrom(mono)
           /\ ~modern.raised
               => ValuesOf(modern.value, "var", <<"--font-mono">>) = FontMonoFrom(mono)

\* the custom properties and the per-colour utility classes (background,
\* text, border) of a style sheet
PropertiesAndColorClasses(doc) ==
    {p \in Range(doc) :
        \/ p.kind = "var"
        \/ p.kind = "class"
           /\ p.name[1] \in {".bg-color-", ".text-color-", ".border-color-"}}

\* C19: the modern-css document is a superset of the css document: every
\* custom property and every per-colour utility class (background, text,
\* border) that generate_css_output emits for a profile is also emitted by
\* generate_modern_css_output for it.
C19_Claim ==
    (pc = "generate_template" /\ output_format = "modern-css"
        /\ ~result.raised)
    => \A p \in PropertiesAndColorClasses(generate_css_output(data).value) :
          \E q \in Range(result.value) :
             q.kind = p.kind /\ q.name = p.name

\* the document has a section of this title
HasSection(doc, title) ==
    \E p \in Range(doc) : p.kind = "section" /\ p.name = <<title>>

\* C20: generate_modern_css_output appends the container-query section
\* exactly when detect_modern_css_features found a container query in the
\* raw style text, and the :has() section exactly when it found a :has()
\* selector; when it found nothing, the empty raw style text included,
\* neither section is present and the document is still produced.
C20_Claim ==
    (pc = "generate_template" /\ output_format = "modern-css")
    => LET found == detect_modern_css_features(data.css_text)
       IN  /\ ~result.raised
           /\ HasSection(result.value, "Container Queries Detected")
               <=> found.container_queries # <<>>
           /\ HasSection(result.value, ":has() Selector Patterns Detected")
               <=> found.has_selectors # <<>>

----------------------------------------------------------------------------
(* get_all_css: the raw style text of a fetched page.  A page is the       *)
(* sequence of its elements in document order; the style attribute, the    *)
(* string of a <style> element and the href of a <link> are empty when     *)
(* absent.  Every request of the session is appended to the trace with its *)
(* outcome.                                                                *)

Element(tag, style, string, rel, href) ==
    [tag |-> tag, style |-> style, string |-> string, rel |-> rel, href |-> href]

\* one call: its name, its argument and how it ended
Call(name, arg, outcome) == [call |-> name, arg |-> arg, outcome |-> outcome]

\* session.get followed by raise_for_status: the response, a
\* requests.RequestException of the transport, or one of the status
FetchOutcomes == {"ok", "request_error", "http_error"}

NewLine == <<"\n">>

\* https://example.com
PageUrl ==
    <<"h","t","t","p","s",":","/","/","e","x","a","m","p","l","e",".","c","o",
      "m">>

\* color:#ff0000
InlineStyleText ==
    <<"c","o","l","o","r",":","#","f","f","0","0","0","0">>

\* a{color:#0080ff}
EmbeddedStyleText ==
    <<"a","{","c","o","l","o","r",":","#","0","0","8","0","f","f","}">>

\* theme.css
HrefRelative ==
    <<"t","h","e","m","e",".","c","s","s">>

\* //cdn.example.org/base.css
HrefProtocolRelative ==
    <<"/","/","c","d","n",".","e","x","a","m","p","l","e",".","o","r","g","/",
      "b","a","s","e",".","c","s","s">>

\* https://cdn.example.org/site.css
HrefAbsolute ==
    <<"h","t","t","p","s",":","/","/","c","d","n",".","e","x","a","m","p","l",
      "e",".","o","r","g","/","s","i","t","e",".","c","s","s">>

\* h1{font-family:Georgia}
SheetRelative ==
    <<"h","1","{","f","o","n","t","-","f","a","m","i","l","y",":","G","e","o",
      "r","g","i","a","}">>

\* .x{color:#00ff00}
SheetProtocolRelative ==
    <<".","x","{","c","o","l","o","r",":","#","0","0","f","f","0","0","}">>

\* b{color:#abc}
SheetAbsolute ==
    <<"b","{","c","o","l","o","r",":","#","a","b","c","}">>

\* the elements pages are made of
InlineElement == Element("p", InlineStyleText, <<>>, "", <<>>)
EmbeddedElement == Element("style", <<>>, EmbeddedStyleText, "", <<>>)
LinkRelative == Element("link", <<>>, <<>>, "stylesheet", HrefRelative)
LinkProtocolRelative == Element("link", <<>>, <<>>, "stylesheet", HrefProtocolRelative)
LinkAbsolute == Element("link", <<>>, <<>>, "stylesheet", HrefAbsolute)
LinkWithoutHref == Element("link", <<>>, <<>>, "stylesheet", <<>>)

\* urljoin(self.url, ref) for a page url without a path and a relative path
urljoin(base, ref) ==
    IF ref[1] = "/" THEN base \o ref ELSE base \o <<"/">> \o ref

\* the url get_all_css requests for an href
CssUrl(url, href) ==
    IF ~(StartsWith(href, <<"h","t","t","p">>) \/ StartsWith(href, <<"/","/">>))
    THEN urljoin(url, href)
    ELSE IF StartsWith(href, <<"/","/">>)
    THEN <<"h","t","t","p","s",":">> \o href
    ELSE href

\* the body the server sends for a style sheet
SheetAt(css_url) ==
    IF css_url = CssUrl(PageUrl, HrefRelative) THEN SheetRelative
    ELSE IF css_url = CssUrl(PageUrl, HrefProtocolRelative) THEN SheetProtocolRelative
    ELSE SheetAbsolute

\* BeautifulSoup(response.text, 'html.parser'): the elements, and no image
Soup(elements) ==
    [img |-> FALSE, src |-> FALSE, fetch |-> "ok", decodable |-> FALSE,
     histogram |-> <<>>, elements |-> elements]

\* each text of the list followed by a newline
Lines(texts) == FlatMap(LAMBDA t : t \o NewLine, texts)

\* soup.find_all(style=True), the attributes that are not empty
InlineStyles(sp) ==
    LET tags == SelectSeq(sp.elements, LAMBDA e : e.style # <<>>)
    IN  [i \in 1..Len(tags) |-> tags[i].style]

\* soup.find_all('style'), the strings that are not empty
EmbeddedStyles(sp) ==
    LET tags == SelectSeq(sp.elements, LAMBDA e : e.tag = "style" /\ e.string # <<>>)
    IN  [i \in 1..Len(tags) |-> tags[i].string]

\* soup.find_all('link', rel='stylesheet')
StyleSheetLinks(sp) ==
    SelectSeq(sp.elements, LAMBDA e : e.tag = "link" /\ e.rel = "stylesheet")

\* the first loop: the style attributes
CollectInline ==
    /\ pc = "get_all_css"
    /\ pc' = "get_all_css.embedded"
    /\ css_text' = css_text \o Lines(InlineStyles(soup))
    /\ UNCHANGED <<hex_color, amount, soup, sheet, data, output_format, templates,
                   result, page, trace, link, styles, found_colors, found_fonts,
                   written,
                   output_file>>

\* the second loop: the <style> elements
CollectEmbedded ==
    /\ pc = "get_all_css.embedded"
    /\ pc' = "get_all_css.links"
    /\ css_text' = css_text \o Lines(EmbeddedStyles(soup))
    /\ link' = 0
    /\ UNCHANGED <<hex_color, amount, soup, sheet, data, output_format, templates,
                   result, page, trace, styles, found_colors, found_fonts, written,
                   output_file>>

\* one pass of the third loop over a <link> without href: continue
SkipLink ==
    /\ pc = "get_all_css.links"
    /\ link < Len(StyleSheetLinks(soup))
    /\ StyleSheetLinks(soup)[link + 1].href = <<>>
    /\ link' = link + 1
    /\ UNCHANGED <<pc, hex_color, amount, css_text, soup, sheet, data,
                   output_format, templates, result, page, trace, styles,
                   found_colors, found_fonts, written,
                   output_file>>

\* a pass of the third loop that leaves the loop when the request fails
FetchSheetOrStop ==
    /\ pc = "get_all_css.links"
    /\ link < Len(StyleSheetLinks(soup))
    /\ StyleSheetLinks(soup)[link + 1].href # <<>>
    /\ LET css_url == CssUrl(PageUrl, StyleSheetLinks(soup)[link + 1].href)
       IN  \E outcome \in FetchOutcomes :
             /\ trace' = Append(trace, Call("session.get", css_url, outcome))
             /\ css_text' = IF outcome = "ok"
                            THEN css_text \o SheetAt(css_url) \o NewLine
                            ELSE css_text
             /\ link' = IF outcome = "ok" THEN link + 1
                        ELSE Len(StyleSheetLinks(soup))
    /\ UNCHANGED <<pc, hex_color, amount, soup, sheet, data, output_format,
                   templates, result, page, styles, found_colors, found_fonts,
                   written,
                   output_file>>

\* one pass of the third loop: the sheet is requested; its text is appended,
\* or the RequestException is caught and the loop continues
FetchSheet ==
    /\ pc = "get_all_css.links"
    /\ link < Len(StyleSheetLinks(soup))
    /\ StyleSheetLinks(soup)[link + 1].href # <<>>
    /\ LET css_url == CssUrl(PageUrl, StyleSheetLinks(soup)[link + 1].href)
       IN  \E outcome \in FetchOutcomes :
             /\ trace' = Append(trace, Call("session.get", css_url, outcome))
             /\ css_text' = IF outcome = "ok"
                            THEN css_text \o SheetAt(css_url) \o NewLine
                            ELSE css_text
    /\ link' = link + 1
    /\ UNCHANGED <<pc, hex_color, amount, soup, sheet, data, output_format,
                   templates, result, page, styles, found_colors, found_fonts,
                   written,
                   output_file>>

\* return css_text
ReturnCss ==
    /\ pc = "get_all_css.links"
    /\ link = Len(StyleSheetLinks(soup))
    /\ pc' = "get_all_css.return"
    /\ result' = Return(css_text)
    /\ UNCHANGED <<hex_color, amount, css_text, soup, sheet, data, output_format,
                   templates, page, trace, link, styles, found_colors,
                   found_fonts, written,
                   output_file>>

get_all_css == CollectInline \/ CollectEmbedded \/ SkipLink \/ FetchSheet \/ ReturnCss

----------------------------------------------------------------------------
(* get_all_css applied to every page of up to MaxElements elements.        *)

MaxElements == 3

ElementLibrary ==
    {InlineElement, EmbeddedElement, LinkRelative, LinkProtocolRelative,
     LinkAbsolute, LinkWithoutHref}

Pages == StringsUpTo(ElementLibrary, MaxElements)

InitCss ==
    /\ pc = "get_all_css"
    /\ page \in Pages
    /\ soup = Soup(page)
    /\ css_text = <<>>
    /\ sheet = NoResult /\ result = NoResult
    /\ trace = <<>> /\ link = 0 /\ styles = <<>>
    /\ found_colors = <<>> /\ found_fonts = <<>> /\ written = <<>>
    /\ output_file = FALSE
    /\ ConvIdle
    /\ RenderIdle

NextCss == get_all_css

SpecCss == InitCss /\ [][NextCss]_vars

----------------------------------------------------------------------------
(* Properties of get_all_css.                                              *)

\* the hrefs of the linked style sheets of the page, in document order
LinkedSheets(elements) ==
    LET tags == SelectSeq(elements, LAMBDA e : e.tag = "link" /\ e.href # <<>>)
    IN  [i \in 1..Len(tags) |-> CssUrl(PageUrl, tags[i].href)]

\* the requests of the trace
Requests(calls) == SelectSeq(calls, LAMBDA c : c.call = "session.get")

\* the bodies of the requests that succeeded, in the order of the requests
FetchedSheets(calls) ==
    LET got == SelectSeq(Requests(calls), LAMBDA c : c.outcome = "ok")
    IN  [i \in 1..Len(got) |-> SheetAt(got[i].arg)]

\* the texts of the elements of one tag, in document order
TextsOfTag(elements, tag) ==
    LET tags == SelectSeq(elements, LAMBDA e : e.tag = tag)
    IN  [i \in 1..Len(tags) |-> IF tag = "style" THEN tags[i].string ELSE tags[i].style]

\* C16: in get_all_css a linked style sheet whose fetch fails is skipped:
\* every linked sheet is requested exactly once, in document order, whether
\* or not an earlier request failed, a failed request adds no text, and the
\* text returned is the inline declarations, then the embedded style
\* blocks, then the text of every linked sheet whose fetch succeeded, in
\* document order.
C16_FailedSheetSkipped ==
    /\ pc \in {"get_all_css", "get_all_css.embedded", "get_all_css.links"}
        => Len(Requests(trace)) <= Len(LinkedSheets(page))
    /\ pc = "get_all_css.return"
        => /\ ~result.raised
           /\ [i \in 1..Len(Requests(trace)) |-> Requests(trace)[i].arg]
                = LinkedSheets(page)
           /\ result.value
                = Lines(TextsOfTag(page, "p")) \o Lines(TextsOfTag(page, "style"))
                  \o Lines(FetchedSheets(trace))

C16_Witness ==
    /\ pc = "get_all_css.return"
    /\ Len(Requests(trace)) = 2
    /\ trace[1].outcome # "ok" /\ trace[2].outcome = "ok"
    /\ TextsOfTag(page, "p") # <<>>
    /\ result.value = InlineStyleText \o NewLine \o SheetAt(trace[2].arg) \o NewLine

----------------------------------------------------------------------------
(* get_computed_styles: the snapshot read from a headless browser.  Every  *)
(* call of the driver either returns or raises; execute_script returns a   *)
(* string, or nothing (the empty string here).                             *)

\* rgb(255, 0, 0)
ComputedRed ==
    <<"r","g","b","(","2","5","5",","," ","0",","," ","0",")">>

\* Georgia, serif
ComputedGeorgia ==
    <<"G","e","o","r","g","i","a",","," ","s","e","r","i","f">>

\* the dict both return statements start from
DefaultStyles ==
    [body |-> [background |-> White, font_family |-> DefaultBodyFont],
     headings |-> [color |-> Black],
     links |-> [color |-> DefaultLinkColor]]

\* execute_script raises, returns nothing, or returns the computed value
ScriptOutcomes == {"raised", "empty", "value"}

\* what execute_script returned
Computed(field, outcome) ==
    IF outcome = "empty" THEN <<>>
    ELSE IF field = "body.font_family" THEN ComputedGeorgia
    ELSE ComputedRed

\* value or default
Or(value, default) == IF value # <<>> THEN value ELSE default

\* Service(ChromeDriverManager().install()), before the first try
InstallDriver ==
    /\ pc = "get_computed_styles"
    /\ \E outcome \in {"ok", "raised"} :
         /\ trace' = Append(trace, Call("ChromeDriverManager.install", "", outcome))
         /\ pc' = IF outcome = "ok" THEN "get_computed_styles.driver"
                  ELSE "get_computed_styles.raise"
         /\ result' = IF outcome = "ok" THEN result ELSE Raise("Exception")
    /\ styles' = styles
    /\ UNCHANGED <<hex_color, amount, css_text, soup, sheet, data, output_format,
                   templates, page, link, found_colors, found_fonts, written,
                   output_file>>

\* webdriver.Chrome(...): the driver, or a WebDriverException and the defaults
CreateDriver ==
    /\ pc = "get_computed_styles.driver"
    /\ \E outcome \in {"ok", "raised"} :
         /\ trace' = Append(trace, Call("webdriver.Chrome", "", outcome))
         /\ pc' = IF outcome = "ok" THEN "get_computed_styles.get"
                  ELSE "get_computed_styles.return"
         /\ result' = IF outcome = "ok" THEN result ELSE Return(DefaultStyles)
    /\ styles' = DefaultStyles
    /\ UNCHANGED <<hex_color, amount, css_text, soup, sheet, data, output_format,
                   templates, page, link, found_colors, found_fonts, written,
                   output_file>>

\* driver.get(self.url)
DriverGet ==
    /\ pc = "get_computed_styles.get"
    /\ \E outcome \in {"ok", "raised"} :
         /\ trace' = Append(trace, Call("driver.get", "", outcome))
         /\ pc' = IF outcome = "ok" THEN "get_computed_styles.background"
                  ELSE "get_computed_styles.finally"
    /\ UNCHANGED <<styles, result>>
    /\ UNCHANGED <<hex_color, amount, css_text, soup, sheet, data, output_format,
                   templates, page, link, found_colors, found_fonts, written,
                   output_file>>

\* styles['body']['background'] = driver.execute_script(...) or '#ffffff'
ReadBodyBackground ==
    /\ pc = "get_computed_styles.background"
    /\ \E outcome \in ScriptOutcomes :
         /\ trace' = Append(trace, Call("driver.execute_script", "body.background", outcome))
         /\ pc' = IF outcome = "raised" THEN "get_computed_styles.finally"
                  ELSE "get_computed_styles.font_family"
         /\ styles' = IF outcome = "raised" THEN styles
                      ELSE [styles EXCEPT !.body.background =
                               Or(Computed("body.background", outcome), White)]
    /\ result' = result
    /\ UNCHANGED <<hex_color, amount, css_text, soup, sheet, data, output_format,
                   templates, page, link, found_colors, found_fonts, written,
                   output_file>>

\* styles['body']['font_family'] = driver.execute_script(...) or 'Arial, sans-serif'
ReadBodyFont ==
    /\ pc = "get_computed_styles.font_family"
    /\ \E outcome \in ScriptOutcomes :
         /\ trace' = Append(trace, Call("driver.execute_script", "body.font_family", outcome))
         /\ pc' = IF outcome = "raised" THEN "get_computed_styles.finally"
                  ELSE "get_computed_styles.headings"
         /\ styles' = IF outcome = "raised" THEN styles
                      ELSE [styles EXCEPT !.body.font_family =
                               Or(Computed("body.font_family", outcome), DefaultBodyFont)]
    /\ result' = result
    /\ UNCHANGED <<hex_color, amount, css_text, soup, sheet, data, output_format,
                   templates, page, link, found_colors, found_fonts, written,
                   output_file>>

\* driver.find_element('css selector', 'h1'): the element, or an exception
FindHeading ==
    /\ pc = "get_computed_styles.headings"
    /\ \E outcome \in {"ok", "raised"} :
         /\ trace' = Append(trace, Call("driver.find_element", "h1", outcome))
         /\ pc' = IF outcome = "ok" THEN "get_computed_styles.headings.color"
                  ELSE "get_computed_styles.finally"
    /\ UNCHANGED <<styles, result>>
    /\ UNCHANGED <<hex_color, amount, css_text, soup, sheet, data, output_format,
                   templates, page, link, found_colors, found_fonts, written,
                   output_file>>

\* styles['headings']['color'] = driver.execute_script(..., h1_element) or '#000000'
ReadHeadingColor ==
    /\ pc = "get_computed_styles.headings.color"
    /\ \E outcome \in ScriptOutcomes :
         /\ trace' = Append(trace, Call("driver.execute_script", "headings.color", outcome))
         /\ pc' = IF outcome = "raised" THEN "get_computed_styles.finally"
                  ELSE "get_computed_styles.links"
         /\ styles' = IF outcome = "raised" THEN styles
                      ELSE [styles EXCEPT !.headings.color =
                               Or(Computed("headings.color", outcome), Black)]
    /\ result' = result
    /\ UNCHANGED <<hex_color, amount, css_text, soup, sheet, data, output_format,
                   templates, page, link, found_colors, found_fonts, written,
                   output_file>>

\* driver.find_element('css selector', 'a'): the element, or an exception
FindLink ==
    /\ pc = "get_computed_styles.links"
    /\ \E outcome \in {"ok", "raised"} :
         /\ trace' = Append(trace, Call("driver.find_element", "a", outcome))
         /\ pc' = IF outcome = "ok" THEN "get_computed_styles.links.color"
                  ELSE "get_computed_styles.finally"
    /\ UNCHANGED <<styles, result>>
    /\ UNCHANGED <<hex_color, amount, css_text, soup, sheet, data, output_format,
                   templates, page, link, found_colors, found_fonts, written,
                   output_file>>

\* styles['links']['color'] = driver.execute_script(..., a_element) or '#0000ee'
ReadLinkColor ==
    /\ pc = "get_computed_styles.links.color"
    /\ \E outcome \in ScriptOutcomes :
         /\ trace' = Append(trace, Call("driver.execute_script", "links.color", outcome))
         /\ pc' = IF outcome = "raised" THEN "get_computed_styles.finally"
                  ELSE "get_computed_styles.finally"
         /\ styles' = IF outcome = "raised" THEN styles
                      ELSE [styles EXCEPT !.links.color =
                               Or(Computed("links.color", outcome), DefaultLinkColor)]
    /\ result' = result
    /\ UNCHANGED <<hex_color, amount, css_text, soup, sheet, data, output_format,
                   templates, page, link, found_colors, found_fonts, written,
                   output_file>>

\* finally: driver.quit(); return styles
QuitDriver ==
    /\ pc = "get_computed_styles.finally"
    /\ pc' = "get_computed_styles.return"
    /\ trace' = Append(trace, Call("driver.quit", "", "ok"))
    /\ result' = Return(styles)
    /\ styles' = styles
    /\ UNCHANGED <<hex_color, amount, css_text, soup, sheet, data, output_format,
                   templates, page, link, found_colors, found_fonts, written,
                   output_file>>

get_computed_styles ==
    \/ InstallDriver \/ CreateDriver \/ DriverGet
    \/ ReadBodyBackground \/ ReadBodyFont
    \/ FindHeading \/ ReadHeadingColor \/ FindLink \/ ReadLinkColor
    \/ QuitDriver

----------------------------------------------------------------------------
(* get_computed_styles with every outcome of every call of the driver.     *)

InitComputed ==
    /\ pc = "get_computed_styles"
    /\ page = <<>> /\ trace = <<>> /\ link = 0 /\ styles = <<>>
    /\ found_colors = <<>> /\ found_fonts = <<>> /\ written = <<>>
    /\ output_file = FALSE
    /\ result = NoResult
    /\ ConvIdle
    /\ ExtractIdle
    /\ RenderIdle

NextComputed == get_computed_styles

SpecComputed == InitComputed /\ [][NextComputed]_vars

----------------------------------------------------------------------------
(* Properties of get_computed_styles.                                      *)

SnapshotFields == {"body.background", "body.font_family", "headings.color", "links.color"}

FieldOf(snapshot, field) ==
    IF field = "body.background" THEN snapshot.body.background
    ELSE IF field = "body.font_family" THEN snapshot.body.font_family
    ELSE IF field = "headings.color" THEN snapshot.headings.color
    ELSE snapshot.links.color

\* the browser gave a value for the field
Obtained(calls, field) ==
    \E i \in 1..Len(calls) :
        /\ calls[i].call = "driver.execute_script"
        /\ calls[i].arg = field
        /\ calls[i].outcome = "value"

\* every field is the value the browser gave for it, or its default
SnapshotComplete(snapshot, calls) ==
    \A field \in SnapshotFields :
        /\ FieldOf(snapshot, field) # <<>>
        /\ FieldOf(snapshot, field)
             = IF Obtained(calls, field) THEN Computed(field, "value")
               ELSE FieldOf(DefaultStyles, field)

\* C17: get_computed_styles always returns a snapshot whose four fields are
\* not empty: the value of the browser where one was obtained, the default
\* (#ffffff, Arial, sans-serif, #000000, #0000ee) otherwise; a failure
\* while one field is read leaves the fields read before intact and the
\* fields not yet read at their defaults.
C17_Claim ==
    pc \in {"get_computed_styles.return", "get_computed_styles.raise"}
    => /\ ~result.raised
       /\ SnapshotComplete(result.value, trace)

----------------------------------------------------------------------------
(* main: extract_styles, generate_template and the write of the output     *)
(* file.  The steps of get_all_css and of get_computed_styles are the      *)
(* actions above; every call is appended to the trace.                     *)

\* fetch_page_content a second time with an empty document when the request
\* of the page failed
FetchPageOrEmpty ==
    /\ pc = "main"
    /\ \E outcome \in FetchOutcomes :
         /\ trace' = IF outcome = "ok"
                     THEN Append(trace, Call("session.get", PageUrl, outcome))
                     ELSE trace \o <<Call("session.get", PageUrl, outcome),
                                     Call("session.get", PageUrl, "ok")>>
         /\ soup' = IF outcome = "ok" THEN Soup(page) ELSE Soup(<<>>)
         /\ pc' = "get_all_css"
    /\ UNCHANGED <<hex_color, amount, css_text, sheet, data, output_format,
                   templates, result, page, link, styles, found_colors,
                   found_fonts, written,
                   output_file>>

\* extract_styles, its first statements: soup = self.fetch_page_content() and
\* return None when there is no soup
FetchPage ==
    /\ pc = "main"
    /\ \E outcome \in FetchOutcomes :
         /\ trace' = Append(trace, Call("session.get", PageUrl, outcome))
         /\ soup' = IF outcome = "ok" THEN Soup(page) ELSE soup
         /\ pc' = IF outcome = "ok" THEN "get_all_css" ELSE "extract_styles.none"
    /\ UNCHANGED <<hex_color, amount, css_text, sheet, data, output_format,
                   templates, result, page, link, styles, found_colors,
                   found_fonts, written,
                   output_file>>

\* colors = self.extract_colors(css_text, soup)
ExtractColors ==
    /\ pc = "get_all_css.return"
    /\ pc' = "extract_fonts"
    /\ trace' = Append(trace, Call("extract_colors", "", "ok"))
    /\ found_colors' = extract_colors(css_text, soup).value
    /\ UNCHANGED <<hex_color, amount, css_text, soup, sheet, data, output_format,
                   templates, result, page, link, styles, found_fonts, written,
                   output_file>>

\* fonts = self.extract_fonts(css_text); cssutils raises or finds no font
\* family in a style rule (no style text of MainPages declares one)
ExtractFonts ==
    /\ pc = "extract_fonts"
    /\ pc' = "get_computed_styles"
    /\ trace' = Append(trace, Call("extract_fonts", "", "ok"))
    /\ \E parsed \in {Raise("Exception"), Return(<<>>)} :
         /\ sheet' = parsed
         /\ found_fonts' = extract_fonts(css_text, parsed).value
    /\ UNCHANGED <<hex_color, amount, css_text, soup, data, output_format,
                   templates, result, page, link, styles, found_colors, written,
                   output_file>>

\* return WebStyleData(...)
AssembleProfile ==
    /\ pc = "get_computed_styles.return"
    /\ pc' = "extract_styles.return"
    /\ data' = [url |-> PageUrl, colors |-> found_colors, fonts |-> found_fonts,
                body_bg |-> result.value.body.background,
                heading_color |-> result.value.headings.color,
                link_color |-> result.value.links.color,
                body_font |-> result.value.body.font_family,
                css_text |-> css_text]
    /\ UNCHANGED <<hex_color, amount, css_text, soup, sheet, output_format,
                   templates, result, page, trace, link, styles, found_colors,
                   found_fonts, written,
                   output_file>>

\* main: if not data: log the failure and return
MainAbort ==
    /\ pc = "extract_styles.none"
    /\ pc' = "main.return"
    /\ UNCHANGED <<hex_color, amount, css_text, soup, sheet, data, output_format,
                   templates, result, page, trace, link, styles, found_colors,
                   found_fonts, written,
                   output_file>>

\* main: template = extractor.generate_template(data, args.output), and the
\* return when the template is empty
Render ==
    /\ pc = "extract_styles.return"
    /\ trace' = Append(trace, Call("generate_template", output_format, "ok"))
    /\ result' = generate_template(data, output_format, templates)
    /\ pc' = IF result'.raised THEN "main.raise"
             ELSE IF result'.value = <<>> THEN "main.return"
             ELSE "main.write"
    /\ UNCHANGED <<hex_color, amount, css_text, soup, sheet, data, output_format,
                   templates, page, link, styles, found_colors, found_fonts,
                   written,
                   output_file>>

\* format_configs.get_file_extension(format_name)
FileExtension ==
    [f \in Formats |->
        IF f = "mediawiki" THEN "mediawiki"
        ELSE IF f = "html" THEN "html"
        ELSE IF f = "tailwind" THEN "js"
        ELSE IF f \in {"css", "modern-css"} THEN "css"
        ELSE "json"]

\* the file the template goes to: the path given with --output-file, or
\* styles.<extension> in the project directory
MainOutput == IF output_file THEN <<"--output-file">> ELSE <<"styles", FileExtension[output_format]>>

\* what writing a file can end in
WriteOutcomes == {"ok", "os_error"}

\* one write of main or of a create_ method: the call is recorded, the file
\* exists when the write succeeded, an OSError leaves main
WriteFile(name, next) ==
    \E outcome \in WriteOutcomes :
        /\ trace' = Append(trace, Call("write_text", name, outcome))
        /\ written' = IF outcome = "ok" THEN Append(written, name) ELSE written
        /\ pc' = IF outcome = "ok" THEN next ELSE "main.raise"

\* a main that writes the output file before it looks at the template
WriteOutputUnchecked ==
    /\ pc \in {"main.write", "main.return"} /\ written = <<>> /\ data # NoData
    /\ ~result.raised
    /\ WriteFile(MainOutput, IF output_file THEN "main.summary" ELSE "main.metadata")
    /\ UNCHANGED <<hex_color, amount, css_text, soup, sheet, data, output_format,
                   templates, result, page, link, styles, found_colors,
                   found_fonts, output_file>>

\* main: output_path.write_text(template, encoding='utf-8'), in either mode
WriteOutput ==
    /\ pc = "main.write"
    /\ WriteFile(MainOutput, IF output_file THEN "main.summary" ELSE "main.metadata")
    /\ UNCHANGED <<hex_color, amount, css_text, soup, sheet, data, output_format,
                   templates, result, page, link, styles, found_colors,
                   found_fonts, output_file>>

\* extractor.create_metadata_file(data, project_dir)
CreateMetadataFile ==
    /\ pc = "main.metadata"
    /\ WriteFile(<<"metadata.txt">>, "main.readme")
    /\ UNCHANGED <<hex_color, amount, css_text, soup, sheet, data, output_format,
                   templates, result, page, link, styles, found_colors,
                   found_fonts, output_file>>

\* extractor.create_project_readme(data, project_dir, args.output)
CreateProjectReadme ==
    /\ pc = "main.readme"
    /\ WriteFile(<<"README.md">>, "main.html_readme")
    /\ UNCHANGED <<hex_color, amount, css_text, soup, sheet, data, output_format,
                   templates, result, page, link, styles, found_colors,
                   found_fonts, output_file>>

\* extractor.create_project_html_readme(data, project_dir, args.output)
CreateProjectHtmlReadme ==
    /\ pc = "main.html_readme"
    /\ WriteFile(<<"README.html">>, "main.summary")
    /\ UNCHANGED <<hex_color, amount, css_text, soup, sheet, data, output_format,
                   templates, result, page, link, styles, found_colors,
                   found_fonts, output_file>>

\* main: the extraction summary
PrintSummary ==
    /\ pc = "main.summary"
    /\ pc' = "main.terminal_message"
    /\ trace' = Append(trace, Call("print", <<"Extraction Summary">>, "ok"))
    /\ UNCHANGED <<hex_color, amount, css_text, soup, sheet, data, output_format,
                   templates, result, page, link, styles, found_colors,
                   found_fonts, written, output_file>>

\* main: get_terminal_message(args.output, output_path, project_dir /
\* 'README.html'); project_dir is bound in the organized branch only
PrintTerminalMessage ==
    /\ pc = "main.terminal_message"
    /\ trace' = Append(trace, Call("get_terminal_message", <<output_format>>,
                                   IF output_file THEN "UnboundLocalError" ELSE "ok"))
    /\ pc' = IF output_file THEN "main.raise" ELSE "main.return"
    /\ UNCHANGED <<hex_color, amount, css_text, soup, sheet, data, output_format,
                   templates, result, page, link, styles, found_colors,
                   found_fonts, written, output_file>>

\* the pages main is run on: without any style, with inline and embedded
\* style, with a link without href and a linked sheet before an inline style
MainPages ==
    {<<>>, <<InlineElement, EmbeddedElement>>,
     <<LinkWithoutHref, LinkProtocolRelative, InlineElement>>}

InitMain ==
    /\ pc = "main"
    /\ page \in MainPages
    /\ output_format \in Formats
    /\ templates \in {NoTemplates, TemplateDir(TRUE, ShippedTemplates, TRUE)}
    /\ data = NoData
    /\ result = NoResult
    /\ trace = <<>> /\ link = 0 /\ styles = <<>>
    /\ found_colors = <<>> /\ found_fonts = <<>> /\ written = <<>>
    /\ output_file \in BOOLEAN
    /\ ConvIdle
    /\ ExtractIdle

NextMain ==
    \/ FetchPage \/ MainAbort
    \/ get_all_css
    \/ ExtractColors \/ ExtractFonts
    \/ get_computed_styles
    \/ AssembleProfile \/ Render \/ WriteOutput
    \/ CreateMetadataFile \/ CreateProjectReadme \/ CreateProjectHtmlReadme
    \/ PrintSummary \/ PrintTerminalMessage

SpecMain == InitMain /\ [][NextMain]_vars

----------------------------------------------------------------------------
(* Properties of main.                                                     *)

\* the request of the page failed: there is no document to take any style
\* text from
PageFetchFailed ==
    /\ trace # <<>>
    /\ trace[1] \in {Call("session.get", PageUrl, outcome) :
                        outcome \in FetchOutcomes \ {"ok"}}

\* C15: when extraction cannot obtain any raw style text (the request of
\* the page fails), extract_styles returns None: no StyleProfile is
\* assembled, no later step of the pipeline runs (style collection, colour
\* and font extraction, computed styles, rendering, file write), and the
\* page is not requested again: the failed request is the only call.
C15_FetchFailureAborts ==
    PageFetchFailed
    => /\ pc \in {"extract_styles.none", "main.return"}
       /\ Len(trace) = 1
       /\ data = NoData
       /\ css_text = <<>> /\ found_colors = <<>> /\ found_fonts = <<>>
       /\ styles = <<>>
       /\ result = NoResult
       /\ written = <<>>

C15_Witness ==
    /\ PageFetchFailed
    /\ pc = "main.return"
    /\ page = <<InlineElement, EmbeddedElement>>
    /\ output_format = "json"
    /\ data = NoData /\ written = <<>>

\* the outcomes of the calls made so far
Outcomes(calls) == {calls[i].outcome : i \in 1..Len(calls)}

\* the positions of the calls of one name
CallsOf(calls, name) == {i \in 1..Len(calls) : calls[i].call = name}

\* C26: after a successful extraction and a non-empty render, with every
\* write succeeding, main leaves through no unhandled error, with or without
\* --output-file, and has then printed the extraction summary and the
\* terminal message of the format.
C26_Claim ==
    /\ pc = "main.raise" => result.raised \/ "os_error" \in Outcomes(trace)
    /\ (pc = "main.return" /\ written # <<>>)
          => /\ trace[Len(trace) - 1].call = "print"
             /\ trace[Len(trace)] = Call("get_terminal_message", <<output_format>>, "ok")

\* the files of the organized project directory, in the order main makes them
OrganizedFiles ==
    <<MainOutput, <<"metadata.txt">>, <<"README.md">>, <<"README.html">>>>

IsPrefix(s, all) == Len(s) <= Len(all) /\ SubSeq(all, 1, Len(s)) = s

\* the names of the files main has tried to write, in order
WriteAttempts ==
    LET writes == SelectSeq(trace, LAMBDA c : c.call = "write_text")
    IN  [i \in 1..Len(writes) |-> writes[i].arg]

\* C27: main writes no file unless extract_styles returned a profile and
\* generate_template then returned a non-empty document; without
\* --output-file the files are written in the order main output,
\* metadata.txt, README.md, README.html; with --output-file exactly one
\* file, the main output, is written.
C27_WriteOrder ==
    LET expected == IF output_file THEN <<MainOutput>> ELSE OrganizedFiles
    IN  /\ WriteAttempts # <<>>
              => /\ data # NoData
                 /\ ~result.raised /\ result.value # <<>>
                 /\ \E r \in CallsOf(trace, "generate_template") :
                        \A w \in CallsOf(trace, "write_text") : r < w
        /\ IsPrefix(WriteAttempts, expected)
        /\ IsPrefix(written, WriteAttempts)
        /\ CallsOf(trace, "print") # {} => written = expected

\* C27 witness: a run without --output-file has returned after writing the
\* four files.
C27_Witness ==
    /\ pc = "main.return"
    /\ ~output_file
    /\ output_format = "tailwind"
    /\ written = << <<"styles", "js">>, <<"metadata.txt">>, <<"README.md">>,
                    <<"README.html">> >>

====
